---- MODULE Spec2Model ----
(***************************************************************************)
(* rabbit-message-replayer: the decoder of RabbitMQ persistence files      *)
(* (rabbit_blob.go, rabbit_msg.go, rabbit_file.go), the statistics         *)
(* (statistic.go) and the worker pool of the "full" command (main.go).     *)
(*                                                                         *)
(* Bytes are the integers 0..255, a string is the sequence of its bytes.   *)
(* Offsets are 0-based as in the Go source; TLA+ sequences are 1-based, so *)
(* the byte at offset i of a buffer F is F[i+1].                           *)
(*                                                                         *)
(* Two specifications share the module:                                    *)
(*   SpecScan  one file scanned by RabbitFile.ProcessMessages, one loop    *)
(*             iteration per step, over synthesized files;                 *)
(*   Spec      the worker pool of the "full" command over a catalog of     *)
(*             small files, each scanned by the same operators.            *)
(***************************************************************************)
EXTENDS Integers, Sequences, FiniteSets, TLC

VARIABLES
    \* ---- SpecScan: one file under RabbitFile.ProcessMessages
    input,      \* the file: [name, pad, recs]
    toolchain,  \* which ReadFile produced the buffer (decides its capacity)
    reMatch,    \* the queue filter: <<>> (nil) or <<set of matching names>>
    rbPos,      \* rf.blob.pos
    rf,         \* the RabbitFile: [Messages, Stat, Queues]
    scanSt,     \* "idle" | "run" | "done" | "error"
    scanErr,    \* the kind of the panic that ended the scan, "" if none
    \* ---- Spec: the "full" command
    cfg,        \* [flag, numCPU, replay, rev]: the command line and the revision
    files,      \* the file list (names), after Unique()
    threads,    \* *threads after the default is resolved
    pc,         \* the coordinator's position in main
    jobs,       \* [buf, closed]: chan string, capacity threads
    results,    \* chan RabbitFile, capacity len(files)
    publish,    \* [buf, closed]: chan *RabbitMessage, capacity threads*30
    nSubmitted, \* files sent on jobs
    toPublish,  \* the messages of the current report not yet sent on publish
    nReceived,  \* reports received from results
    stats,      \* [queueStat, qtStat, fileStat, ftStat]
    workers,    \* fileHandler goroutines: [st, file, data, err]
    publishers, \* messageHandler goroutines: [st, published, panicking]
    nCompleted, \* summaries received on completed
    proc,       \* "running" | "exited" | "crashed" | "deadlock"
    hist,       \* history (not program state): what happened to files and messages,
                \* pubs the set of publications made
    \* ---- SpecFind: the "find-lost" command
    finder,     \* [cfg, files, i, filesHandled, lostMessagesMap, pc, scanned]
    \* ---- SpecStat: a Statistic / Statistics under its methods
    tally,      \* [s, stats, ops]: the receivers and the operations applied
    \* ---- SpecSplit: the "split-messages" command
    splitter    \* main, the reader goroutines, the writer goroutine, the channels

scanVars == <<input, toolchain, reMatch, rbPos, rf, scanSt, scanErr>>
poolVars == <<cfg, files, threads, pc, jobs, results, publish, nSubmitted, toPublish,
              nReceived, stats, workers, publishers, nCompleted, proc, hist>>
auxVars == <<finder, tally, splitter>>
vars == <<scanVars, poolVars, auxVars>>

(***************************************************************************)
(* Bytes and strings                                                       *)
(***************************************************************************)
rabbitHeaderBytes ==
    <<114, 97, 98, 98, 105, 116, 95, 102, 114, 97, 109, 105, 110, 103, 95,
      97, 109, 113, 112, 95, 48, 95, 57, 95, 49>>
lenHeader == Len(rabbitHeaderBytes)
exchangeBytes == <<101, 120, 99, 104, 97, 110, 103, 101>>
rdqSuffix == <<46, 114, 100, 113>>
idxSuffix == <<46, 105, 100, 120>>
ByteL == 108
ByteM == 109
ByteI == 105
ByteFF == 255

\* A value too large for any buffer of the model: what a length field with a
\* non-zero high byte decodes to.  Every read of that many bytes fails.
Huge == 2 ^ 30

Max(a, b) == IF a > b THEN a ELSE b

\* strings.HasSuffix
HasSuffix(s, suffix) ==
    /\ Len(s) >= Len(suffix)
    /\ SubSeq(s, Len(s) - Len(suffix) + 1, Len(s)) = suffix

\* The byte at 0-based offset i of the array behind the file buffer F.  The
\* bytes between len and cap were allocated by make and never written: zero.
ByteAt(F, i) == IF i < Len(F) THEN F[i + 1] ELSE 0

\* The n bytes at offsets off .. off+n-1.
BytesAt(F, off, n) == [j \in 1 .. n |-> ByteAt(F, off + j - 1)]

\* bytes.Index(F[lo:hi], needle): the offset, relative to lo, of the first
\* occurrence of needle in the bytes at offsets lo .. hi-1; -1 if there is none.
Index(F, lo, hi, needle) ==
    LET n == Len(needle)
        hits == {i \in lo .. (hi - n) :
                    \A j \in 1 .. n : ByteAt(F, i + j - 1) = needle[j]}
    IN  IF hits = {} THEN -1
        ELSE (CHOOSE i \in hits : \A k \in hits : i <= k) - lo

(***************************************************************************)
(* RabbitBlob.  A Go slice is a window [off, off+len) on an array, and may  *)
(* be re-sliced up to its capacity: s[lo:hi] panics unless                  *)
(* 0 <= lo <= hi <= cap(s).  A blob is [off, len, cap, pos] over the array  *)
(* behind the file buffer; pos is relative to off.                          *)
(***************************************************************************)
Blob(off, len, cap) == [off |-> off, len |-> len, cap |-> cap, pos |-> 0]

\* The result of a read: ok = FALSE is a panic of kind err.
Fail(kind, b) == [ok |-> FALSE, err |-> kind, v |-> 0, b |-> b]
Okay(v, b) == [ok |-> TRUE, err |-> "", v |-> v, b |-> b]

\* Sequencing: a panic ends the function, a result goes to the next statement.
Then(r, Next(_)) == IF r.ok THEN Next(r) ELSE r
Else(r, Panic(_), Next(_)) == IF r.ok THEN Next(r) ELSE Panic(r)

\* binary.BigEndian over n bytes at absolute offset a (n <= 3 keeps TLC's
\* integers in range).
RECURSIVE BigEndian(_, _, _)
BigEndian(F, a, n) ==
    IF n = 0 THEN 0 ELSE BigEndian(F, a, n - 1) * 256 + ByteAt(F, a + n - 1)

\* The value of a big-endian field of w bytes at absolute offset a: exact when
\* it fits in three bytes, Huge (or -Huge for a 64-bit field with the sign bit
\* set, as int(uint64) gives) otherwise.
FieldValue(F, a, w) ==
    IF \E j \in 0 .. (w - 4) : ByteAt(F, a + j) # 0
    THEN IF w = 8 /\ ByteAt(F, a) >= 128 THEN 0 - Huge ELSE Huge
    ELSE BigEndian(F, a + w - 3, 3)

\* RabbitBlob.ReadUInt32: slices rb.data[rb.pos : rb.pos+8], decodes the first
\* four bytes, advances by 4.
ReadUInt32(F, b) ==
    IF b.pos + 8 > b.cap THEN Fail("bounds", b)
    ELSE Okay(FieldValue(F, b.off + b.pos, 4), [b EXCEPT !.pos = b.pos + 4])

\* RabbitBlob.ReadUInt64
ReadUInt64(F, b) ==
    IF b.pos + 8 > b.cap THEN Fail("bounds", b)
    ELSE Okay(FieldValue(F, b.off + b.pos, 8), [b EXCEPT !.pos = b.pos + 8])

\* RabbitBlob.ReadBytes(n): rb.data[rb.pos : rb.pos+n].  v is the slice read,
\* as a blob of its own (its capacity runs to the end of the array).
ReadBytes(F, b, n) ==
    IF n < 0 \/ b.pos + n > b.cap THEN Fail("bounds", b)
    ELSE Okay(Blob(b.off + b.pos, n, b.cap - b.pos), [b EXCEPT !.pos = b.pos + n])

\* An AssertByte that raises without stepping back.
AssertByteAhead(F, b, mustBe) ==
    IF ~ReadBytes(F, b, 1).ok THEN ReadBytes(F, b, 1)
    ELSE IF ByteAt(F, b.off + b.pos) = mustBe THEN Okay(0, ReadBytes(F, b, 1).b)
    ELSE IF b.pos >= b.len THEN Fail("bounds", ReadBytes(F, b, 1).b)
    ELSE Fail("assert", ReadBytes(F, b, 1).b)

\* The arguments of errors.Raise in AssertByte, r being what ReadBytes(1)
\* returned: after "rb.pos--" the byte expected, rb.data[rb.pos], rb.pos and
\* rb.name.
AssertRaise(F, r, mustBe, name) ==
    [expected |-> mustBe,
     got |-> ByteAt(F, r.b.off + (r.b.pos - 1)),
     at |-> r.b.pos - 1,
     name |-> name]

\* RabbitBlob.AssertByte(mustBe): reads one byte; on a mismatch steps back,
\* reads rb.data[rb.pos] for the message (an index expression, checked against
\* len) and raises.
AssertByte(F, b, mustBe) ==
    LET r == ReadBytes(F, b, 1) IN
    IF ~r.ok THEN r
    ELSE IF ByteAt(F, b.off + b.pos) = mustBe THEN Okay(0, r.b)
    ELSE IF b.pos >= b.len THEN Fail("bounds", b)
    ELSE Fail("assert", b)

(***************************************************************************)
(* statistic.go.  A nil *float64 is <<>>, a set one is <<v>>.  Sizes are   *)
(* whole numbers of bytes, which float64 holds exactly.                    *)
(***************************************************************************)
Statistic(name, count, messages, sum) ==
    [Name |-> name, count |-> count, messages |-> messages, sum |-> sum,
     min |-> <<>>, max |-> <<>>]

\* Statistic.Count
Count(s) == IF s.count <= 1 THEN 1 ELSE s.count

\* Statistic.Messages
Messages(s) == s.messages

\* Statistic.Minimum
Minimum(s) == IF s.min = <<>> THEN s.sum ELSE s.min[1]

\* Statistic.Maximum
Maximum(s) == IF s.max = <<>> THEN s.sum ELSE s.max[1]

\* A Join that takes the other's minimum whenever the other has one.
JoinLastMin(s, other) ==
    [Name |-> s.Name,
     min |-> <<Minimum(other)>>,
     max |-> IF s.count = 0 \/ Maximum(other) > Maximum(s)
             THEN <<Maximum(other)>> ELSE s.max,
     sum |-> s.sum + other.sum,
     count |-> s.count + Count(other),
     messages |-> s.messages + Messages(other)]

\* Statistic.Join
Join(s, other) ==
    [Name |-> s.Name,
     min |-> IF s.count = 0 \/ Minimum(other) < Minimum(s)
             THEN <<Minimum(other)>> ELSE s.min,
     max |-> IF s.count = 0 \/ Maximum(other) > Maximum(s)
             THEN <<Maximum(other)>> ELSE s.max,
     sum |-> s.sum + other.sum,
     count |-> s.count + Count(other),
     messages |-> s.messages + Messages(other)]

\* Statistic.Add
Add(s, value) == Join(s, Statistic(<<>>, 1, 1, value))

\* The zero Statistics: a nil index, an empty List.  index maps a name to the
\* position in List of the entry both point to.
NoStatistics == [index |-> [n \in {} |-> 0], List |-> <<>>]

\* An AddStatistic that puts the entry of a new name at the head of the list.
AddStatisticFirst(cum, s) ==
    IF s.Name \in DOMAIN cum.index
    THEN [cum EXCEPT !.List[cum.index[s.Name]] = Join(@, s)]
    ELSE [index |-> [n \in (DOMAIN cum.index) \cup {s.Name} |->
                        IF n = s.Name THEN 1 ELSE cum.index[n] + 1],
          List |-> <<Join(Statistic(s.Name, 0, 0, 0), s)>> \o cum.List]

\* Statistics.AddStatistic
AddStatistic(cum, s) ==
    LET exist == s.Name \in DOMAIN cum.index
        cum1 == IF exist THEN cum
                ELSE [index |-> [n \in (DOMAIN cum.index) \cup {s.Name} |->
                                    IF n = s.Name THEN Len(cum.List) + 1
                                    ELSE cum.index[n]],
                      List |-> Append(cum.List, Statistic(s.Name, 0, 0, 0))]
        i == cum1.index[s.Name]
    IN  [cum1 EXCEPT !.List[i] = Join(@, s)]

\* Statistics.Add
StatisticsAdd(cum, name, value) ==
    AddStatistic(cum, Add(Statistic(name, 0, 0, 0), value))

\* An AddGroup that hands the whole statistic on under the name of the group.
AddGroupWhole(cum, name, stat) ==
    AddStatistic(cum, [stat EXCEPT !.Name = name])

\* Statistics.AddGroup
AddGroup(cum, name, stat) ==
    AddStatistic(cum, Statistic(name, 0, stat.messages, stat.sum))

\* Statistics.Join
RECURSIVE StatisticsJoinFrom(_, _, _)
StatisticsJoinFrom(cum, list, i) ==
    IF i > Len(list) THEN cum
    ELSE StatisticsJoinFrom(AddStatistic(cum, list[i]), list, i + 1)

StatisticsJoin(cum, other) == StatisticsJoinFrom(cum, other.List, 1)

(***************************************************************************)
(* rabbit_msg.go, rabbit_blob.go, rabbit_file.go: the scan of one file.    *)
(* F is the file's bytes, cap the capacity of the buffer ReadFile returned *)
(* (cap >= Len(F)).                                                        *)
(***************************************************************************)
RabbitMessage(queue, data, length, position) ==
    [Queue |-> queue, Data |-> data, Length |-> length, Position |-> position]

\* RabbitMessage.IsPush: msg.Data[0] != 'i'; indexing an empty Data panics.
IsPushPanics(msg) == msg.Data = <<>>
IsPush(msg) == msg.Data[1] # ByteI

\* A GetQueueName that takes the first len as it is, 0 included.
GetQueueNameFirstLen(F, cap, position) ==
    IF Index(F, position, Len(F), exchangeBytes) < 0
    THEN Fail("queue", Blob(position, Len(F) - position, cap - position))
    ELSE Then(ReadUInt32(F, [Blob(position, Len(F) - position, cap - position)
                                EXCEPT !.pos = Index(F, position, Len(F), exchangeBytes) + 9]),
              LAMBDA r1 :
         Then(ReadBytes(F, r1.b, r1.v), LAMBDA r3 :
         Okay(BytesAt(F, r3.v.off, r3.v.len), r3.b)))

\* RabbitMessage.GetQueueName(data), for a message at offset position.
GetQueueName(F, cap, position) ==
    LET p == Index(F, position, Len(F), exchangeBytes) IN
    IF p < 0 THEN Fail("queue", Blob(position, Len(F) - position, cap - position))
    ELSE Then(ReadUInt32(F, [Blob(position, Len(F) - position, cap - position)
                                EXCEPT !.pos = p + 9]), LAMBDA r1 :
         Then(IF r1.v = 0 THEN ReadUInt32(F, [r1.b EXCEPT !.pos = @ + 6]) ELSE r1,
              LAMBDA r2 :
         Then(ReadBytes(F, r2.b, r2.v), LAMBDA r3 :
         Okay(BytesAt(F, r3.v.off, r3.v.len), r3.b))))

\* "for i := range blocks": 'm', a u32 length and that many bytes, n times.
RECURSIVE ReadBlocks(_, _, _, _)
ReadBlocks(F, b, n, blocks) ==
    IF n = 0 THEN Okay(blocks, b)
    ELSE Then(AssertByte(F, b, ByteM), LAMBDA a :
         Then(ReadUInt32(F, a.b), LAMBDA l :
         Then(ReadBytes(F, l.b, l.v), LAMBDA d :
         ReadBlocks(F, d.b, n - 1, Append(blocks, d.v)))))

\* The blocks appended in the order read.
RECURSIVE JoinForward(_, _)
JoinForward(F, blocks) ==
    IF blocks = <<>> THEN <<>>
    ELSE BytesAt(F, Head(blocks).off, Head(blocks).len) \o JoinForward(F, Tail(blocks))

\* "msg.Data = append(msg.Data, blocks[nbBlocks-i-1]...)" for i = 0 .. nbBlocks-1
RECURSIVE JoinBlocks(_, _)
JoinBlocks(F, blocks) ==
    IF blocks = <<>> THEN <<>>
    ELSE LET n == Len(blocks) IN
         BytesAt(F, blocks[n].off, blocks[n].len) \o JoinBlocks(F, SubSeq(blocks, 1, n - 1))

\* "case 1" of the switch: one block, whose length becomes msg.Length.
SingleBlock(F, b) ==
    Then(AssertByte(F, b, ByteM), LAMBDA m :
    Then(ReadUInt32(F, m.b), LAMBDA l :
    Then(ReadBytes(F, l.b, l.v), LAMBDA d :
    Okay([found |-> TRUE, Data |-> BytesAt(F, d.v.off, d.v.len), Length |-> l.v],
         d.b))))

\* "default" of the switch: nbBlocks blocks joined in reverse; msg.Length
\* keeps the value it had (only the capacity of msg.Data is taken from it).
ManyBlocks(F, b, useLen, nbBlocks, length) ==
    IF ~useLen THEN Fail("structure", b)
    ELSE Then(ReadBlocks(F, b, nbBlocks, <<>>), LAMBDA bs :
         Okay([found |-> TRUE, Data |-> JoinBlocks(F, bs.v), Length |-> length],
              bs.b))

\* A parse that moves the cursor to the marker as if it had been at 0.
ParseRecordFromStart(F, blob, useLen, length) ==
    IF Index(F, blob.off + blob.pos, blob.off + blob.len, rabbitHeaderBytes) = -1
    THEN Okay([found |-> FALSE, Data |-> <<>>, Length |-> length], blob)
    ELSE Then(AssertByte(F, [blob EXCEPT !.pos =
                    Index(F, blob.off + blob.pos, blob.off + blob.len, rabbitHeaderBytes)
                    + lenHeader], ByteL),
              LAMBDA a :
         Then(ReadUInt32(F, a.b), LAMBDA nb :
         IF nb.v = 1 THEN SingleBlock(F, nb.b)
         ELSE ManyBlocks(F, nb.b, useLen, nb.v, length)))

\* The part of one loop iteration that works on blob (the frame, or the file
\* itself): from bytes.Index to the end of the switch.  length is msg.Length
\* on entry.  v is [found, Data, Length]; found = FALSE is the break.
ParseRecord(F, blob, useLen, length) ==
    LET msgPos == Index(F, blob.off + blob.pos, blob.off + blob.len, rabbitHeaderBytes) IN
    IF msgPos = -1
    THEN Okay([found |-> FALSE, Data |-> <<>>, Length |-> length], blob)
    ELSE Then(AssertByte(F, [blob EXCEPT !.pos = @ + msgPos + lenHeader], ByteL),
              LAMBDA a :
         Then(ReadUInt32(F, a.b), LAMBDA nb :
         IF nb.v = 1 THEN SingleBlock(F, nb.b)
         ELSE ManyBlocks(F, nb.b, useLen, nb.v, length)))

\* What an iteration gives: kind is "msg" (msg goes to the handler), "break"
\* or "error" (a panic of kind err); pos is rb.pos afterwards.
IterOut(kind, err, pos, msg) == [kind |-> kind, err |-> err, pos |-> pos, msg |-> msg]

\* "msg.Queue = must(msg.GetQueueName(rb.data))" and the handler call, q being
\* what GetQueueName returned.
IterQueue(msg, q, after) ==
    IF ~q.ok THEN IterOut("error", q.err, after, msg)
    ELSE IterOut("msg", "", after, [msg EXCEPT !.Queue = q.v])

\* The iteration from bytes.Index on, r being what the parse of the record
\* gave.  outer is rb.pos when the record is a frame, -1 when blob is rb itself.
IterRecord(F, cap, pos, outer, r) ==
    IF ~r.ok
    THEN IterOut("error", r.err, IF outer >= 0 THEN outer ELSE r.b.pos,
                 RabbitMessage(<<>>, <<>>, 0, pos))
    ELSE IF ~r.v.found
    THEN IterOut("break", "", IF outer >= 0 THEN outer ELSE r.b.pos,
                 RabbitMessage(<<>>, <<>>, 0, pos))
    ELSE IterQueue(RabbitMessage(<<>>, r.v.Data, r.v.Length, pos),
                   GetQueueName(F, cap, pos),
                   IF outer >= 0 THEN outer ELSE r.b.pos)

\* An IterFrame that parses the frame with the blob of the file itself.
IterFrameShared(F, cap, pos, length, frame, r) ==
    IF ~r.ok THEN IterOut("error", r.err, r.b.pos, RabbitMessage(<<>>, <<>>, 0, pos))
    ELSE IterRecord(F, cap, pos, -1,
                    ParseRecord(F, [frame EXCEPT !.pos = frame.off, !.off = 0,
                                                 !.len = frame.off + frame.len],
                                TRUE, length))

\* The frame of an iteration in a file read with useLen, r being the result of
\* "rb.AssertByte(0xff)", length the u64 read and frame the bytes read.
IterFrame(F, cap, pos, length, frame, r) ==
    IF ~r.ok THEN IterOut("error", r.err, r.b.pos, RabbitMessage(<<>>, <<>>, 0, pos))
    ELSE IterRecord(F, cap, pos, r.b.pos, ParseRecord(F, frame, TRUE, length))

\* A panic before the frame is complete.
IterFail(pos, r) == IterOut("error", r.err, r.b.pos, RabbitMessage(<<>>, <<>>, 0, pos))

\* One iteration of the loop of RabbitBlob.ProcessMessages, entered with
\* rb.pos = pos < len(rb.data).
ScanIter(F, cap, useLen, pos) ==
    IF ~useLen
    THEN IterRecord(F, cap, pos, -1,
                    ParseRecord(F, [Blob(0, Len(F), cap) EXCEPT !.pos = pos], FALSE, 0))
    ELSE Else(ReadUInt64(F, [Blob(0, Len(F), cap) EXCEPT !.pos = pos]),
              LAMBDA r : IterFail(pos, r), LAMBDA r1 :
         Else(ReadBytes(F, r1.b, r1.v),
              LAMBDA r : IterFail(pos, r), LAMBDA r2 :
         IterFrame(F, cap, pos, r1.v, r2.v, AssertByte(F, r2.b, ByteFF))))

\* The zero RabbitFile that ReadRabbitFile returns for fileName.
NewRabbitFile(fileName) ==
    [Messages |-> <<>>, Stat |-> Statistic(fileName, 0, 0, 0), Queues |-> NoStatistics]

\* regexp.MatchString: a compiled expression is the set of names it matches.
MatchString(re, name) == name \in re[1]

\* A handler that puts a message at the head of the report.
HandlePrepends(file, re, msg) ==
    IF re # <<>> /\ ~MatchString(re, msg.Queue) THEN file
    ELSE [Messages |-> <<msg>> \o file.Messages,
          Stat |-> Add(file.Stat, msg.Length),
          Queues |-> StatisticsAdd(file.Queues, msg.Queue, msg.Length)]

\* A handler that counts a message in the file statistic before the filter.
HandleCountsFirst(file, re, msg) ==
    IF re # <<>> /\ ~MatchString(re, msg.Queue)
    THEN [file EXCEPT !.Stat = Add(@, msg.Length)]
    ELSE [Messages |-> Append(file.Messages, msg),
          Stat |-> Add(file.Stat, msg.Length),
          Queues |-> StatisticsAdd(file.Queues, msg.Queue, msg.Length)]

\* The handler RabbitFile.ProcessMessages gives to the blob (its own handler
\* argument is nil in fileHandler).
Handle(file, re, msg) ==
    IF re # <<>> /\ ~MatchString(re, msg.Queue) THEN file
    ELSE [Messages |-> Append(file.Messages, msg),
          Stat |-> Add(file.Stat, msg.Length),
          Queues |-> StatisticsAdd(file.Queues, msg.Queue, msg.Length)]

\* RabbitFile.ProcessMessages from rb.pos = pos to the end of the scan:
\* [file, err, pos], err = "" when the scan returns, else the kind of the
\* panic that leaves it, file being the RabbitFile as it is at that point.
RECURSIVE ProcessMessages(_, _, _, _, _, _)
ProcessIter(F, cap, useLen, re, file, it) ==
    IF it.kind = "error" THEN [file |-> file, err |-> it.err, pos |-> it.pos]
    ELSE IF it.kind = "break" THEN [file |-> file, err |-> "", pos |-> it.pos]
    ELSE ProcessMessages(F, cap, useLen, re, it.pos, Handle(file, re, it.msg))

ProcessMessages(F, cap, useLen, re, pos, file) ==
    IF pos >= Len(F) THEN [file |-> file, err |-> "", pos |-> pos]
    ELSE ProcessIter(F, cap, useLen, re, file, ScanIter(F, cap, useLen, pos))

(***************************************************************************)
(* Files.  A file is [name, pad, recs]; a record is [kind, q, blocks]:     *)
(*   "ok"        exchange section, marker, 'l', block count, blocks        *)
(*   "nomarker"  the same without the marker and what follows it           *)
(*   "badlist"   the byte after the marker is not 'l'                      *)
(*   "badend"    as "ok", but the byte after the frame is 0 and not 0xFF   *)
(*   "far"       as "ok", the exchange section in its second form: a len  *)
(*               of 0, 6 bytes, a second len, the name                     *)
(*   "noexchange" as "ok", without the exchange section                    *)
(*   "long"      one block whose length field is one more than the bytes   *)
(*               of it that the record holds                               *)
(*   "short"     as "ok", but the file ends one byte before the end of the *)
(*               last block (a truncated file)                             *)
(* In every file but an index file, *.idx, a record is framed: u64 length, *)
(* bytes, 0xFF.  pad zero bytes open the first record.                     *)
(***************************************************************************)
MaxBlocks == 3
BigPad == 460

QA == <<113, 97>>
QB == <<113, 46, 98>>
RdqName == <<97>> \o rdqSuffix
IdxName == <<97>> \o idxSuffix
DatName == <<97, 46, 100, 97, 116>>

U32(n) == <<0, (n \div 65536) % 256, (n \div 256) % 256, n % 256>>
U64(n) == <<0, 0, 0, 0>> \o U32(n)

Zeros(n) == [j \in 1 .. n |-> 0]

RECURSIVE BlockBytes(_)
BlockBytes(blocks) ==
    IF blocks = <<>> THEN <<>>
    ELSE <<ByteM>> \o U32(Len(Head(blocks))) \o Head(blocks) \o BlockBytes(Tail(blocks))

\* "exchange", the tag byte GetQueueName skips, u32 len, the name.
ExchangeBytes(q) == exchangeBytes \o <<ByteM>> \o U32(Len(q)) \o q

\* The same with a length of 0 first: the name follows 6 bytes and a second
\* u32 len.
FarExchangeBytes(q) ==
    exchangeBytes \o <<ByteM>> \o U32(0) \o Zeros(6) \o U32(Len(q)) \o q

InnerBytes(rec) ==
    (CASE rec.kind = "far" -> FarExchangeBytes(rec.q)
       [] rec.kind = "noexchange" -> <<>>
       [] OTHER -> ExchangeBytes(rec.q)) \o
    (CASE rec.kind \in {"ok", "badend", "short", "far", "noexchange"} ->
            rabbitHeaderBytes \o <<ByteL>> \o U32(Len(rec.blocks)) \o BlockBytes(rec.blocks)
       [] rec.kind = "long" ->
            rabbitHeaderBytes \o <<ByteL>> \o U32(1) \o <<ByteM>>
                \o U32(Len(rec.blocks[1]) + 1) \o rec.blocks[1]
       [] rec.kind = "nomarker" -> <<>>
       [] rec.kind = "badlist" ->
            rabbitHeaderBytes \o <<ByteM>> \o U32(Len(rec.blocks)) \o BlockBytes(rec.blocks))

RecordBytes(rec, framed, pad) ==
    LET inner == Zeros(pad) \o InnerBytes(rec)
    IN  IF rec.kind = "short"
        THEN IF framed THEN U64(Len(inner)) \o SubSeq(inner, 1, Len(inner) - 1)
             ELSE SubSeq(inner, 1, Len(inner) - 1)
        ELSE IF framed
        THEN U64(Len(inner)) \o inner \o (IF rec.kind = "badend" THEN <<0>> ELSE <<ByteFF>>)
        ELSE inner

RECURSIVE RecordsBytes(_, _, _)
RecordsBytes(recs, framed, pad) ==
    IF recs = <<>> THEN <<>>
    ELSE RecordBytes(Head(recs), framed, pad) \o RecordsBytes(Tail(recs), framed, 0)

\* The records of a file are framed on disk unless it is an index file.
FramedOnDisk(fileName) == ~HasSuffix(fileName, idxSuffix)

FileBytes(in) == RecordsBytes(in.recs, FramedOnDisk(in.name), in.pad)

\* The offset of record i of the file.
RecordOffset(in, i) ==
    Len(RecordsBytes(SubSeq(in.recs, 1, i - 1), FramedOnDisk(in.name), in.pad))

\* ioutil.ReadFile: the capacity of the buffer it returns for a file of size
\* bytes.  Up to Go 1.15 it reads through a bytes.Buffer grown to
\* size + bytes.MinRead; from Go 1.16 it is os.ReadFile, which allocates
\* max(size + 1, 512).
Toolchains == {"go1.15", "go1.16"}
ReadFileCap(tc, size) ==
    IF tc = "go1.15" THEN size + 512 ELSE Max(size + 1, 512)

\* ReadRabbitFile: useLen of the blob.
UseLen(fileName) == HasSuffix(fileName, rdqSuffix)

Rec(kind, q, blocks) == [kind |-> kind, q |-> q, blocks |-> blocks]
File(name, pad, recs) == [name |-> name, pad |-> pad, recs |-> recs]

BlockSet == {<<>>, <<ByteI>>, <<72, 73>>}
SeqsUpTo(S, n) == UNION {[1 .. k -> S] : k \in 1 .. n}
QueueNames == {QA, QB}

\* The files SpecScan scans: every file of one well-formed record, some files
\* of two records, files of one record with a large first block, framed files
\* with another extension, and files whose first frame does not end in 0xFF
\* or holds no marker.
ScanInputs ==
    {File(name, pad, <<Rec("ok", q, blocks)>>) :
        name \in {RdqName, IdxName}, pad \in {0, BigPad},
        q \in QueueNames, blocks \in SeqsUpTo(BlockSet, MaxBlocks)}
    \cup
    {File(name, 0, <<Rec("ok", QA, <<b>>), Rec(kind, QB, <<<<72, 73>>, b>>)>>) :
        name \in {RdqName, IdxName}, b \in BlockSet,
        kind \in {"ok", "nomarker", "badlist"}}
    \cup
    {File(RdqName, 0, <<Rec("ok", QA, <<Zeros(BigPad), b>>)>>) : b \in BlockSet}
    \cup
    {File(DatName, 0, <<Rec("ok", q, blocks)>>) :
        q \in QueueNames, blocks \in SeqsUpTo(BlockSet, 2)}
    \cup
    {File(name, 0, <<Rec(kind, q, <<b>>)>>) :
        name \in {RdqName, IdxName}, kind \in {"far", "noexchange"},
        q \in QueueNames, b \in BlockSet}
    \cup
    {File(name, 0, <<Rec("noexchange", QA, <<b>>), Rec("ok", QB, <<b>>)>>) :
        name \in {RdqName, IdxName}, b \in BlockSet}
    \cup
    {File(name, 0, <<Rec("short", q, <<b>>)>>) :
        name \in {RdqName, IdxName}, q \in QueueNames, b \in BlockSet \ {<<>>}}
    \cup
    {File(RdqName, 0, <<Rec(kind, QA, <<b>>), Rec("ok", QB, <<b>>)>>) :
        b \in BlockSet, kind \in {"badend", "nomarker"}}
    \cup
    {File(RdqName, 0, <<Rec("long", QA, <<b>>)>>) : b \in BlockSet}
    \cup
    {File(RdqName, 0, <<Rec("long", QA, <<b>>), Rec("ok", QB, <<b>>)>>) : b \in BlockSet}
    \cup
    {File(RdqName, pad, <<Rec("ok", QA, blocks), Rec("ok", QB, <<<<ByteI>>>>)>>) :
        pad \in {0, BigPad}, blocks \in [1 .. 2 -> BlockSet]}

Filters == {<<>>, <<{QA}>>, <<QueueNames>>}

(***************************************************************************)
(* SpecScan: RabbitFile.ProcessMessages on one file, one iteration of the  *)
(* loop of RabbitBlob.ProcessMessages per step.                            *)
(***************************************************************************)
Iter_in ==
    ScanIter(FileBytes(input), ReadFileCap(toolchain, Len(FileBytes(input))),
             UseLen(input.name), rbPos)

PoolIdle ==
    /\ cfg = [flag |-> 0, numCPU |-> 1, replay |-> FALSE, rev |-> "main.go"]
    /\ files = <<>>
    /\ threads = 0
    /\ pc = "off"
    /\ jobs = [buf |-> <<>>, closed |-> FALSE]
    /\ results = <<>>
    /\ publish = [buf |-> <<>>, closed |-> FALSE]
    /\ nSubmitted = 0
    /\ toPublish = <<>>
    /\ nReceived = 0
    /\ stats = [queueStat |-> NoStatistics, qtStat |-> NoStatistics,
                fileStat |-> NoStatistics, ftStat |-> NoStatistics]
    /\ workers = <<>>
    /\ publishers = <<>>
    /\ nCompleted = 0
    /\ proc = "off"
    /\ hist = [taken |-> <<>>, order |-> <<>>, sent |-> 0, published |-> 0, pubs |-> {},
               warned |-> {}]

\* The other commands are not running.
FinderIdle == finder = [pc |-> "off"]
TallyIdle == tally = [pc |-> "off"]
SplitterIdle == splitter = [pc |-> "off"]
AuxIdle == FinderIdle /\ TallyIdle /\ SplitterIdle

InitScan ==
    /\ input \in ScanInputs
    /\ toolchain \in Toolchains
    /\ reMatch \in Filters
    /\ rbPos = 0
    /\ rf = NewRabbitFile(input.name)
    /\ scanSt = "run"
    /\ scanErr = ""
    /\ PoolIdle
    /\ AuxIdle

Looping == scanSt = "run" /\ rbPos < Len(FileBytes(input))

\* An iteration that reaches the handler.
ScanMessageOf(it) ==
    /\ it.kind = "msg"
    /\ rf' = Handle(rf, reMatch, it.msg)
    /\ rbPos' = it.pos
    /\ UNCHANGED <<input, toolchain, reMatch, scanSt, scanErr, poolVars, auxVars>>

ScanMessage == Looping /\ ScanMessageOf(Iter_in)

\* A break that empties the report.
ScanBreakDrops(it) ==
    /\ it.kind = "break"
    /\ rbPos' = it.pos
    /\ scanSt' = "done"
    /\ rf' = NewRabbitFile(input.name)
    /\ UNCHANGED <<input, toolchain, reMatch, scanErr, poolVars, auxVars>>

\* An iteration that finds no marker: break.
ScanBreakOf(it) ==
    /\ it.kind = "break"
    /\ rbPos' = it.pos
    /\ scanSt' = "done"
    /\ UNCHANGED <<input, toolchain, reMatch, rf, scanErr, poolVars, auxVars>>

ScanBreak == Looping /\ ScanBreakOf(Iter_in)

\* An iteration that panics: the deferred function raises it again.
ScanPanicOf(it) ==
    /\ it.kind = "error"
    /\ rbPos' = it.pos
    /\ scanSt' = "error"
    /\ scanErr' = it.err
    /\ UNCHANGED <<input, toolchain, reMatch, rf, poolVars, auxVars>>

ScanPanic == Looping /\ ScanPanicOf(Iter_in)

\* The loop condition fails: the scan returns.
ScanReturn ==
    /\ scanSt = "run" /\ rbPos >= Len(FileBytes(input))
    /\ scanSt' = "done"
    /\ UNCHANGED <<input, toolchain, reMatch, rbPos, rf, scanErr, poolVars, auxVars>>

NextScan == ScanMessage \/ ScanBreak \/ ScanPanic \/ ScanReturn

SpecScan == InitScan /\ [][NextScan]_vars

\* The scan is sequential code of one goroutine: it keeps taking steps.  An
\* iteration is possible exactly when Looping holds, so weak fairness of the
\* iterations is written with Looping for their ENABLED.
ScanIteration == ScanMessage \/ ScanBreak \/ ScanPanic
SpecScanLive ==
    /\ InitScan
    /\ [][NextScan]_vars
    /\ WF_vars(ScanReturn)
    /\ ([]<>(~Looping) \/ []<><<ScanIteration>>_vars)

(***************************************************************************)
(* Spec: the "full" command.  main is the coordinator; fileHandler and     *)
(* messageHandler are the goroutines it starts.  The broker accepts every  *)
(* connection, declaration and publication.                                *)
(***************************************************************************)
MaxThreads == 2
MaxFiles == 2

\* The two revisions of the command in the source: main.go, and the one with
\* the completed channel.
Revisions == {"main.go", "part_001"}

\* The values of --match the command is run with.
FullFilters == {<<>>, <<{QA}>>}

\* The folder: the files the command can find.
Name(n) == <<48 + n>>
Catalog ==
    {File(Name(1) \o rdqSuffix, 0,
          <<Rec("ok", QA, <<<<72, 73>>>>), Rec("ok", QB, <<<<72, 73>>, <<ByteI>>>>)>>),
     File(Name(2) \o rdqSuffix, 0, <<Rec("ok", QA, <<<<ByteI>>>>)>>),
     File(Name(3) \o idxSuffix, 0, <<Rec("ok", QB, <<<<72, 73>>>>)>>),
     File(Name(4) \o rdqSuffix, 0,
          <<Rec("ok", QA, <<<<72, 73>>>>), Rec("badlist", QB, <<<<72>>>>)>>),
     File(Name(5) \o rdqSuffix, 0, <<Rec("ok", QA, <<<<>>>>)>>),
     File(Name(0) \o rdqSuffix, 0, <<Rec("ok", QA, <<<<72, 73>>>>)>>)}

\* The files of the folder that ioutil.ReadFile cannot open.
Unreadable == {Name(0) \o rdqSuffix}

OnDisk(fileName) == CHOOSE f \in Catalog : f.name = fileName

\* utils.MustFindFilesMaxDepth then Unique(): distinct names in walk order.
RECURSIVE Sorted(_)
Sorted(names) ==
    IF names = {} THEN <<>>
    ELSE LET first == CHOOSE n \in names : \A m \in names : n[1] <= m[1]
         IN  <<first>> \o Sorted(names \ {first})

FileLists ==
    {Sorted(ns) : ns \in {x \in SUBSET {f.name : f \in Catalog} : Cardinality(x) <= MaxFiles}}

\* strings.TrimPrefix(filepath.Ext(name), ".")
Type(name) ==
    LET dots == {i \in 1 .. Len(name) :
                    name[i] = 46 /\ \A j \in i .. Len(name) : name[j] # 47}
    IN  IF dots = {} THEN <<>>
        ELSE SubSeq(name, (CHOOSE i \in dots : \A k \in dots : k <= i) + 1, Len(name))

\* A ReadRabbitFile that returns the content of the file with the error.
ReadRabbitFileWithData(fileName, tc) ==
    [data |-> FileBytes(OnDisk(fileName)),
     cap |-> ReadFileCap(tc, Len(FileBytes(OnDisk(fileName)))),
     err |-> fileName \in Unreadable]

\* ReadRabbitFile: the buffer of the blob and whether err is set.  A file
\* that cannot be opened gives data = nil with the error.
ReadRabbitFile(fileName, tc) ==
    IF fileName \in Unreadable
    THEN [data |-> <<>>, cap |-> 0, err |-> TRUE]
    ELSE [data |-> FileBytes(OnDisk(fileName)),
          cap |-> ReadFileCap(tc, Len(FileBytes(OnDisk(fileName)))),
          err |-> FALSE]

\* "data.ProcessMessages(nil)" on what ReadRabbitFile returned, with warn:
\* "if err != nil { errPrintf("Unable to read %s", file) }".
Warned(r, warn) == [file |-> r.file, err |-> r.err, pos |-> r.pos, warn |-> warn]
ScanRead(rd, fileName, re) ==
    Warned(ProcessMessages(rd.data, rd.cap, UseLen(fileName), re, 0,
                           NewRabbitFile(fileName)),
           rd.err)

\* "data, err := ReadRabbitFile(file, reMatch)" and "data.ProcessMessages(nil)"
ScanFile(fileName, tc, re) == ScanRead(ReadRabbitFile(fileName, tc), fileName, re)

\* "for _, qs := range queueStat.List { qtStat.AddGroup(ext(qs.Name), *qs) }"
RECURSIVE QueueTypes(_, _, _)
QueueTypes(cum, list, i) ==
    IF i > Len(list) THEN cum
    ELSE QueueTypes(AddGroup(cum, Type(list[i].Name), list[i]), list, i + 1)

ScanIdle ==
    /\ input = File(<<>>, 0, <<>>)
    /\ rbPos = 0
    /\ rf = NewRabbitFile(<<>>)
    /\ scanSt = "idle"
    /\ scanErr = ""

Init ==
    /\ ScanIdle
    /\ AuxIdle
    /\ toolchain \in Toolchains
    /\ reMatch \in FullFilters
    /\ cfg \in [flag : 0 .. MaxThreads, numCPU : {1, 2 * MaxThreads},
                replay : BOOLEAN, rev : Revisions]
    /\ files \in FileLists
    /\ threads = cfg.flag
    /\ pc = "start"
    /\ jobs = [buf |-> <<>>, closed |-> FALSE]
    /\ results = <<>>
    /\ publish = [buf |-> <<>>, closed |-> FALSE]
    /\ nSubmitted = 0
    /\ toPublish = <<>>
    /\ nReceived = 0
    /\ stats = [queueStat |-> NoStatistics, qtStat |-> NoStatistics,
                fileStat |-> NoStatistics, ftStat |-> NoStatistics]
    /\ workers = <<>>
    /\ publishers = <<>>
    /\ nCompleted = 0
    /\ proc = "running"
    /\ hist = [taken |-> <<>>, order |-> <<>>, sent |-> 0, published |-> 0, pubs |-> {},
               warned |-> {}]

\* "if *threads == 0 { *threads = runtime.NumCPU() / 2 }"
ResolveThreads(flag, numCPU) == IF flag = 0 THEN numCPU \div 2 ELSE flag

\* The channels are made and the goroutines started.
StartWith(n) ==
    /\ threads' = n
    /\ workers' = [i \in 1 .. n |->
                     [st |-> "idle", file |-> <<>>, data |-> NewRabbitFile(<<>>),
                      err |-> ""]]
    /\ publishers' = IF cfg.replay
                     THEN [i \in 1 .. n |->
                             [st |-> "recv", published |-> [q \in {} |-> 0],
                              panicking |-> FALSE]]
                     ELSE <<>>
    /\ pc' = "submit"
    /\ UNCHANGED <<scanVars, auxVars, cfg, files, jobs, results, publish, nSubmitted, toPublish,
                   nReceived, stats, nCompleted, proc, hist>>

Start == proc = "running" /\ pc = "start" /\ StartWith(ResolveThreads(cfg.flag, cfg.numCPU))

\* "jobs <- file": jobs has capacity threads.
Submit ==
    /\ proc = "running" /\ pc = "submit"
    /\ nSubmitted < Len(files)
    /\ Len(jobs.buf) < threads
    /\ jobs' = [jobs EXCEPT !.buf = Append(@, files[nSubmitted + 1])]
    /\ nSubmitted' = nSubmitted + 1
    /\ UNCHANGED <<scanVars, auxVars, cfg, files, threads, pc, results, publish, toPublish,
                   nReceived, stats, workers, publishers, nCompleted, proc, hist>>

\* "close(jobs)"
CloseJobs ==
    /\ proc = "running" /\ pc = "submit"
    /\ nSubmitted = Len(files)
    /\ jobs' = [jobs EXCEPT !.closed = TRUE]
    /\ pc' = "collect"
    /\ UNCHANGED <<scanVars, auxVars, cfg, files, threads, results, publish, nSubmitted, toPublish,
                   nReceived, stats, workers, publishers, nCompleted, proc, hist>>

\* main blocked in "jobs <- file" with no other goroutine: the runtime ends
\* the process ("all goroutines are asleep").
Deadlock ==
    /\ proc = "running" /\ pc = "submit"
    /\ nSubmitted < Len(files)
    /\ Len(jobs.buf) >= threads
    /\ Len(workers) = 0 /\ Len(publishers) = 0
    /\ proc' = "deadlock"
    /\ UNCHANGED <<scanVars, auxVars, cfg, files, threads, pc, jobs, results, publish, nSubmitted,
                   toPublish, nReceived, stats, workers, publishers, nCompleted, hist>>

\* A fileHandler whose receive leaves the file in jobs.
WorkerTakeKeeps(w, r) ==
    /\ workers' = [workers EXCEPT ![w] =
                      [st |-> IF r.err = "" THEN "send" ELSE "panic",
                       file |-> Head(jobs.buf), data |-> r.file, err |-> r.err]]
    /\ proc' = IF r.err = "" THEN proc ELSE "crashed"
    /\ hist' = [hist EXCEPT !.taken = Append(@, Head(jobs.buf)),
                            !.warned = IF r.warn THEN @ \cup {Head(jobs.buf)} ELSE @]
    /\ UNCHANGED <<scanVars, auxVars, cfg, files, threads, pc, jobs, results, publish,
                   nSubmitted, toPublish, nReceived, stats, publishers, nCompleted>>

\* fileHandler, one iteration up to the send: a file is received from jobs,
\* read and scanned.  r is the outcome of the scan.  Nothing between the scan
\* and the top of the goroutine recovers a panic: the process ends.
WorkerTakeOf(w, r) ==
    /\ workers' = [workers EXCEPT ![w] =
                      [st |-> IF r.err = "" THEN "send" ELSE "panic",
                       file |-> Head(jobs.buf), data |-> r.file, err |-> r.err]]
    /\ proc' = IF r.err = "" THEN proc ELSE "crashed"
    /\ jobs' = [jobs EXCEPT !.buf = Tail(@)]
    /\ hist' = [hist EXCEPT !.taken = Append(@, Head(jobs.buf)),
                            !.warned = IF r.warn THEN @ \cup {Head(jobs.buf)} ELSE @]
    /\ UNCHANGED <<scanVars, auxVars, cfg, files, threads, pc, results, publish, nSubmitted,
                   toPublish, nReceived, stats, publishers, nCompleted>>

WorkerTake ==
    \E w \in DOMAIN workers :
        /\ proc = "running"
        /\ workers[w].st = "idle"
        /\ jobs.buf # <<>>
        /\ WorkerTakeOf(w, ScanFile(Head(jobs.buf), toolchain, reMatch))

\* "result <- data": results has capacity len(files).
WorkerSend ==
    \E w \in DOMAIN workers :
        /\ proc = "running"
        /\ workers[w].st = "send"
        /\ Len(results) < Len(files)
        /\ results' = Append(results, workers[w].data)
        /\ workers' = [workers EXCEPT ![w].st = "idle"]
        /\ UNCHANGED <<scanVars, auxVars, cfg, files, threads, pc, jobs, publish, nSubmitted, toPublish,
                       nReceived, stats, publishers, nCompleted, proc, hist>>

\* "for file := range jobs" ends: jobs is closed and empty.
WorkerExit ==
    \E w \in DOMAIN workers :
        /\ proc = "running"
        /\ workers[w].st = "idle"
        /\ jobs.buf = <<>> /\ jobs.closed
        /\ workers' = [workers EXCEPT ![w].st = "exit"]
        /\ UNCHANGED <<scanVars, auxVars, cfg, files, threads, pc, jobs, results, publish, nSubmitted,
                       toPublish, nReceived, stats, publishers, nCompleted, proc, hist>>

\* The statistics after the report file is joined.
Joined(st, file) ==
    [queueStat |-> StatisticsJoin(st.queueStat, file.Queues),
     qtStat |-> st.qtStat,
     fileStat |-> IF Len(file.Messages) > 0
                  THEN AddStatistic(st.fileStat, file.Stat) ELSE st.fileStat,
     ftStat |-> IF Len(file.Messages) > 0
                THEN AddGroup(st.ftStat, Type(file.Stat.Name), file.Stat) ELSE st.ftStat]

\* "file := <-results" and the joins of one iteration of "for range files".
CollectOf(file) ==
    /\ results' = Tail(results)
    /\ nReceived' = nReceived + 1
    /\ stats' = Joined(stats, file)
    /\ toPublish' = IF cfg.replay THEN file.Messages ELSE <<>>
    /\ hist' = [hist EXCEPT !.order = Append(@, file.Stat.Name)]
    /\ UNCHANGED <<scanVars, auxVars, cfg, files, threads, pc, jobs, publish, nSubmitted,
                   workers, publishers, nCompleted, proc>>

Collect ==
    /\ proc = "running" /\ pc = "collect"
    /\ nReceived < Len(files)
    /\ toPublish = <<>>
    /\ results # <<>>
    /\ CollectOf(Head(results))

\* "publish <- msg": publish has capacity threads * 30.
PublishSend ==
    /\ proc = "running" /\ pc = "collect"
    /\ toPublish # <<>>
    /\ Len(publish.buf) < threads * 30
    /\ publish' = [publish EXCEPT !.buf = Append(@, Head(toPublish))]
    /\ toPublish' = Tail(toPublish)
    /\ hist' = [hist EXCEPT !.sent = @ + 1]
    /\ UNCHANGED <<scanVars, auxVars, cfg, files, threads, pc, jobs, results, nSubmitted,
                   nReceived, stats, workers, publishers, nCompleted, proc>>

\* After the loop: the queue types, the tables, and in the revision that has
\* it "close(publish)".
Report ==
    /\ proc = "running" /\ pc = "collect"
    /\ nReceived = Len(files)
    /\ toPublish = <<>>
    /\ stats' = [stats EXCEPT !.qtStat = QueueTypes(@, stats.queueStat.List, 1)]
    /\ publish' = [publish EXCEPT !.closed = (cfg.rev = "part_001" /\ cfg.replay)]
    /\ pc' = "wait"
    /\ UNCHANGED <<scanVars, auxVars, cfg, files, threads, jobs, results, nSubmitted, toPublish,
                   nReceived, workers, publishers, nCompleted, proc, hist>>

\* "published[msg.Queue]++"
Counted(published, queue) ==
    [q \in (DOMAIN published) \cup {queue} |->
        IF q \in DOMAIN published
        THEN published[q] + (IF q = queue THEN 1 ELSE 0)
        ELSE 1]

\* defaultMethod = "Process"
defaultMethod == <<80, 114, 111, 99, 101, 115, 115>>

\* msg.Method: the field of the later RabbitMessage.  ProcessMessages builds
\* the message as RabbitMessage{Position: rb.pos} and the replay command as
\* RabbitMessage{Queue: ..., Data: ...}; no statement assigns the field, it
\* keeps the zero value "".
Method(msg) == <<>>

\* fmt.Sprintf("{url:%s,method:%s,zip:true}", queue, method)
Cmf(queue, method) ==
    <<123, 117, 114, 108, 58>> \o queue \o <<44, 109, 101, 116, 104, 111, 100, 58>>
        \o method \o <<44, 122, 105, 112, 58, 116, 114, 117, 101, 125>>

\* The amqp.Publishing messageHandler hands to ch.Publish and its routing
\* key; Headers is <<>> (nil) or <<the cmf header>>.  main.go writes
\* "method:Process" in the format, the later revision formats msg.Method.
Publishing(rev, msg) ==
    [Queue |-> msg.Queue,
     Body |-> msg.Data,
     Headers |-> IF IsPush(msg)
                 THEN <<Cmf(msg.Queue, IF rev = "main.go" THEN defaultMethod ELSE Method(msg))>>
                 ELSE <<>>]

\* messageHandler, one iteration of "for msg := range messages".  msg.IsPush()
\* panics on an empty body; the deferred function of the revision that has one
\* then sends the summary before the panic goes on.
PublisherPublishOf(p, msg) ==
    /\ publish' = [publish EXCEPT !.buf = Tail(@)]
    /\ IF IsPushPanics(msg)
       THEN /\ publishers' = [publishers EXCEPT
                                 ![p].st = IF cfg.rev = "part_001" THEN "summary" ELSE "panic",
                                 ![p].panicking = TRUE]
            /\ proc' = IF cfg.rev = "part_001" THEN proc ELSE "crashed"
            /\ hist' = hist
       ELSE /\ publishers' = [publishers EXCEPT
                                 ![p].published = IF cfg.rev = "part_001"
                                                  THEN Counted(@, msg.Queue) ELSE @]
            /\ proc' = proc
            /\ hist' = [hist EXCEPT !.published = @ + 1,
                                     !.pubs = @ \cup {Publishing(cfg.rev, msg)}]
    /\ UNCHANGED <<scanVars, auxVars, cfg, files, threads, pc, jobs, results, nSubmitted,
                   toPublish, nReceived, stats, workers, nCompleted>>

PublisherPublish ==
    \E p \in DOMAIN publishers :
        /\ proc = "running"
        /\ publishers[p].st = "recv"
        /\ publish.buf # <<>>
        /\ PublisherPublishOf(p, Head(publish.buf))

\* The range loop ends: publish is closed and empty.
PublisherDrained ==
    \E p \in DOMAIN publishers :
        /\ proc = "running"
        /\ publishers[p].st = "recv"
        /\ publish.buf = <<>> /\ publish.closed
        /\ publishers' = [publishers EXCEPT
                             ![p].st = IF cfg.rev = "part_001" THEN "summary" ELSE "exit"]
        /\ UNCHANGED <<scanVars, auxVars, cfg, files, threads, pc, jobs, results, publish, nSubmitted,
                       toPublish, nReceived, stats, workers, nCompleted, proc, hist>>

\* "<-completed" in main meets "completed <- publisherStatus{...}" in the
\* deferred function of publisher p (completed is unbuffered).
WaitCompleted ==
    \E p \in DOMAIN publishers :
        /\ proc = "running" /\ pc = "wait"
        /\ cfg.rev = "part_001" /\ cfg.replay
        /\ nCompleted < threads
        /\ publishers[p].st = "summary"
        /\ nCompleted' = nCompleted + 1
        /\ publishers' = [publishers EXCEPT
                             ![p].st = IF publishers[p].panicking THEN "unwind" ELSE "exit"]
        /\ UNCHANGED <<scanVars, auxVars, cfg, files, threads, pc, jobs, results, publish, nSubmitted,
                       toPublish, nReceived, stats, workers, proc, hist>>

\* The panic of publisher p leaves the goroutine after its deferred calls.
PublisherCrash ==
    \E p \in DOMAIN publishers :
        /\ proc = "running"
        /\ publishers[p].st = "unwind"
        /\ publishers' = [publishers EXCEPT ![p].st = "panic"]
        /\ proc' = "crashed"
        /\ UNCHANGED <<scanVars, auxVars, cfg, files, threads, pc, jobs, results, publish, nSubmitted,
                       toPublish, nReceived, stats, workers, nCompleted, hist>>

\* main returns.
Exit ==
    /\ proc = "running" /\ pc = "wait"
    /\ cfg.rev = "main.go" \/ ~cfg.replay \/ nCompleted = threads
    /\ pc' = "done"
    /\ proc' = "exited"
    /\ UNCHANGED <<scanVars, auxVars, cfg, files, threads, jobs, results, publish, nSubmitted,
                   toPublish, nReceived, stats, workers, publishers, nCompleted, hist>>

Next ==
    \/ Start \/ Submit \/ CloseJobs \/ Deadlock
    \/ WorkerTake \/ WorkerSend \/ WorkerExit
    \/ Collect \/ PublishSend \/ Report
    \/ PublisherPublish \/ PublisherDrained \/ WaitCompleted \/ PublisherCrash
    \/ Exit

Spec == Init /\ [][Next]_vars

(***************************************************************************)
(* SpecFind: the "find-lost" command.  main lists the folder, orders the   *)
(* files by the number in their name, creates one output file per          *)
(* configured queue, scans the files one after the other (one file per     *)
(* step) and closes or removes the output files.  finder is                *)
(*   [pc, rev, start, folder, quotas, files, i, filesHandled,              *)
(*    lostMessagesMap, out, scanned]                                       *)
(* where out[q] = [exists, lines] is the output file of queue q on disk    *)
(* and scanned (history) the numbers of the files given to ProcessMessages.*)
(***************************************************************************)
MaxQuota == 2
CheckEvery == 100

\* strconv.Atoi on a string of decimal digits; -1 stands for its error.
RECURSIVE AtoiFrom(_, _, _)
AtoiFrom(str, i, acc) ==
    IF i > Len(str) THEN acc
    ELSE IF str[i] \notin 48 .. 57 THEN -1
    ELSE AtoiFrom(str, i + 1, acc * 10 + (str[i] - 48))
Atoi(str) == IF str = <<>> THEN -1 ELSE AtoiFrom(str, 1, 0)

\* fmt.Sprintf("%v", n) for n >= 0
RECURSIVE Sprint(_)
Sprint(n) == IF n < 10 THEN <<48 + n>> ELSE Sprint(n \div 10) \o <<48 + (n % 10)>>

\* strings.Split(path.Base(file), ".")[0]
Stem(name) ==
    IF \A i \in 1 .. Len(name) : name[i] # 46 THEN name
    ELSE SubSeq(name, 1, (CHOOSE i \in 1 .. Len(name) :
                             name[i] = 46 /\ \A j \in 1 .. (i - 1) : name[j] # 46) - 1)

\* The values of s at places, the larger first (the earlier place first among
\* equal values); the middle one is placed, then the two sides.
RECURSIVE SortPlaces(_, _)
SortPlaces(s, places) ==
    IF places = {} THEN <<>>
    ELSE LET Before(a, b) == s[a] > s[b] \/ (s[a] = s[b] /\ a < b)
             mid == CHOOSE p \in places :
                        Cardinality({q \in places : Before(q, p)}) = Cardinality(places) \div 2
         IN  SortPlaces(s, {q \in places : Before(q, mid)}) \o <<s[mid]>>
                 \o SortPlaces(s, {q \in places : Before(mid, q)})

\* sort.Sort(sort.Reverse(sort.IntSlice(s)))
SortReverse(s) == SortPlaces(s, 1 .. Len(s))

\* The order of two strings, byte by byte.
LexLess(a, b) ==
    \E i \in 1 .. Len(b) :
        /\ \A j \in 1 .. (i - 1) : j <= Len(a) /\ a[j] = b[j]
        /\ i > Len(a) \/ a[i] < b[i]

\* utils.MustFindFilesMaxDepth: the matching names in walk (lexical) order;
\* the middle name is placed, then the names before it and those after it.
RECURSIVE WalkOrder(_)
WalkOrder(names) ==
    IF names = {} THEN <<>>
    ELSE LET mid == CHOOSE n \in names :
                        Cardinality({m \in names : LexLess(m, n)}) = Cardinality(names) \div 2
         IN  WalkOrder({m \in names : LexLess(m, mid)}) \o <<mid>>
                 \o WalkOrder({m \in names : LexLess(mid, m)})

\* The patterns the folder is listed with: "*.rdq" in main.go, the default
\* of --pattern, "*.rdq" and "*.idx", in the later revision.
Listed(rev, name) ==
    HasSuffix(name, rdqSuffix) \/ (rev = "part_001" /\ HasSuffix(name, idxSuffix))

\* The records of the file numbered n.
FindRecs(n) ==
    IF n = 10 THEN <<Rec("ok", QA, <<<<72, 73>>>>), Rec("ok", QA, <<<<ByteI>>>>)>>
    ELSE IF n = 9 THEN <<Rec("ok", QA, <<<<72, 73>>>>), Rec("ok", QB, <<<<72, 73>>>>)>>
    ELSE IF n = 2 THEN <<Rec("ok", QB, <<<<>>>>)>>
    ELSE IF n = 0 THEN <<Rec("ok", QA, <<<<72, 73>>>>), Rec("badlist", QB, <<<<72>>>>)>>
    ELSE IF n % 2 = 0 THEN <<Rec("ok", QA, <<<<ByteI>>>>)>>
    ELSE <<Rec("ok", QB, <<<<72, 73>>>>)>>

FindOnDisk(fileName) == File(fileName, 0, FindRecs(Atoi(Stem(fileName))))

\* The folders: the small ones, and one of CheckEvery message store files.
NumberedRdq(n) == Sprint(n) \o rdqSuffix
FindCatalog ==
    {NumberedRdq(10), NumberedRdq(9), Sprint(9) \o idxSuffix, NumberedRdq(2), NumberedRdq(0)}
FindFolders == (SUBSET FindCatalog) \cup {{NumberedRdq(n) : n \in 1 .. CheckEvery}}

\* The configuration file: the queues and the messages each has lost.
Quotas == UNION {[qs -> 0 .. MaxQuota] : qs \in SUBSET QueueNames}

\* The values of --starts-with.
Starts == {0, 9}

\* "fileNumbers = append(fileNumbers, must(strconv.Atoi(...)))"
FileNumbers(listing) == [k \in 1 .. Len(listing) |-> Atoi(Stem(listing[k]))]

\* "files[i] = path.Join(*folder, fmt.Sprintf("%v.rdq", fileNumber))", and
\* "" for a number above --starts-with in the later revision.
OrderedFiles(rev, start, numbers) ==
    [k \in 1 .. Len(numbers) |->
        IF rev = "part_001" /\ start > 0 /\ numbers[k] > start THEN <<>>
        ELSE NumberedRdq(numbers[k])]

\* The files of the loop: listed, numbered, sorted, renamed.
FindFiles(rev, start, folder) ==
    OrderedFiles(rev, start,
                 SortReverse(FileNumbers(WalkOrder({n \in folder : Listed(rev, n)}))))

\* "lostMessagesMap[queueName] = &FindData{toFind: ..., fileHandler: os.Create(filePath)}"
NewLostMessagesMap(quotas) ==
    [q \in DOMAIN quotas |->
        [toFind |-> quotas[q], found |-> 0, pushAPI |-> 0, done |-> FALSE]]
Created(quotas) == [q \in DOMAIN quotas |-> [exists |-> TRUE, lines |-> 0]]

\* The test before a file: every CheckEvery files in main.go, before every
\* file in the later revision, which also marks the completed queues done.
Checks(rev, filesHandled) == rev = "part_001" \/ (filesHandled + 1) % CheckEvery = 0
StillNeedToProcess(rev, map) ==
    IF rev = "part_001" THEN \E q \in DOMAIN map : map[q].found < map[q].toFind
    ELSE \E q \in DOMAIN map : map[q].found # map[q].toFind
Marked(rev, map) ==
    IF rev = "part_001"
    THEN [q \in DOMAIN map |->
            IF map[q].found < map[q].toFind THEN map[q] ELSE [map[q] EXCEPT !.done = TRUE]]
    ELSE map

\* "queueInfo.fileHandler.WriteString(...); queueInfo.found++"
Written(h, q) ==
    [h EXCEPT !.map[q].found = @ + 1, !.out[q].lines = @ + 1]

\* The handler find-lost gives to ProcessMessages, on h = [map, out, err].
LostHandler(rev, h, msg) ==
    IF h.err # "" \/ msg.Queue \notin DOMAIN h.map THEN h
    ELSE IF rev = "main.go"
    THEN IF h.map[msg.Queue].found = h.map[msg.Queue].toFind THEN h
         ELSE Written(h, msg.Queue)
    ELSE IF h.map[msg.Queue].done THEN h
    ELSE IF IsPushPanics(msg) THEN [h EXCEPT !.err = "index"]
    ELSE Written([h EXCEPT !.map[msg.Queue].pushAPI =
                              @ + (IF IsPush(msg) THEN 1 ELSE 0)], msg.Queue)

RECURSIVE HandleAll(_, _, _, _)
HandleAll(rev, h, msgs, k) ==
    IF k > Len(msgs) THEN h
    ELSE HandleAll(rev, LostHandler(rev, h, msgs[k]), msgs, k + 1)

\* "data, err := ReadRabbitFile(file, nil)" and "data.ProcessMessages(handler)":
\* the handler sees the messages in scan order; a panic of the handler or of
\* the scan leaves main.
ScanLostBytes(fileName, F, tc) ==
    ProcessMessages(F, ReadFileCap(tc, Len(F)), UseLen(fileName), <<>>, 0,
                    NewRabbitFile(fileName))
ScanLost(fileName, tc) == ScanLostBytes(fileName, FileBytes(FindOnDisk(fileName)), tc)
LostAfter(h, r) == IF h.err # "" THEN h ELSE [h EXCEPT !.err = r.err]
LostScan(rev, map, out, r) ==
    LostAfter(HandleAll(rev, [map |-> map, out |-> out, err |-> ""], r.file.Messages, 1), r)

\* A completion that keeps every output file.
CompletionKeeps(map, out) == out

\* "must(queueInfo.fileHandler.Close()); if queueInfo.found == 0 { os.Remove(filePath) }"
Completion(map, out) ==
    [q \in DOMAIN out |-> IF map[q].found = 0 THEN [out[q] EXCEPT !.exists = FALSE] ELSE out[q]]

InitFind ==
    /\ ScanIdle
    /\ toolchain \in Toolchains
    /\ reMatch = <<>>
    /\ PoolIdle
    /\ TallyIdle
    /\ SplitterIdle
    /\ \E rev \in Revisions, start \in Starts, folder \in FindFolders, quotas \in Quotas :
        /\ rev = "main.go" => start = 0
        /\ finder = [pc |-> "start", rev |-> rev, start |-> start, folder |-> folder,
                     quotas |-> quotas, files |-> <<>>, i |-> 1, filesHandled |-> 0,
                     lostMessagesMap |-> <<>>, out |-> <<>>, scanned |-> <<>>]

FindStill == UNCHANGED <<scanVars, poolVars, tally, splitter>>

\* main up to the loop: the file list and the output files.
FindSort ==
    /\ finder.pc = "start"
    /\ finder' = [finder EXCEPT
                    !.pc = "loop",
                    !.files = FindFiles(finder.rev, finder.start, finder.folder),
                    !.lostMessagesMap = NewLostMessagesMap(finder.quotas),
                    !.out = Created(finder.quotas)]
    /\ FindStill

AtFile == finder.pc = "loop" /\ finder.i <= Len(finder.files)
Blank == finder.rev = "part_001" /\ finder.files[finder.i] = <<>>
Breaks ==
    /\ Checks(finder.rev, finder.filesHandled)
    /\ ~StillNeedToProcess(finder.rev, finder.lostMessagesMap)
Proceeds == AtFile /\ ~Blank /\ ~Breaks

\* "if file == "" { continue }"
FindSkip ==
    /\ AtFile
    /\ Blank
    /\ finder' = [finder EXCEPT !.i = @ + 1]
    /\ FindStill

\* "if !stillNeedToProcess { break }"
FindBreak ==
    /\ AtFile
    /\ ~Blank
    /\ Breaks
    /\ finder' = [finder EXCEPT
                    !.pc = "finish",
                    !.filesHandled = IF finder.rev = "main.go" THEN @ + 1 ELSE @,
                    !.lostMessagesMap = Marked(finder.rev, @)]
    /\ FindStill

\* ReadRabbitFile fails: the file the list names is not in the folder.
FindMissing ==
    /\ Proceeds
    /\ finder.files[finder.i] \notin finder.folder
    /\ finder' = [finder EXCEPT
                    !.pc = IF finder.rev = "main.go" THEN "crashed" ELSE @,
                    !.i = @ + 1,
                    !.filesHandled = @ + 1,
                    !.lostMessagesMap = Marked(finder.rev, @)]
    /\ FindStill

FileNumber == Atoi(Stem(finder.files[finder.i]))
Lost_in ==
    LostScan(finder.rev, Marked(finder.rev, finder.lostMessagesMap), finder.out,
             ScanLost(finder.files[finder.i], toolchain))

\* One file scanned to its end.
FindScanOf(h) ==
    /\ h.err = ""
    /\ finder' = [finder EXCEPT
                    !.i = @ + 1,
                    !.filesHandled = @ + 1,
                    !.lostMessagesMap = h.map,
                    !.out = h.out,
                    !.scanned = Append(@, FileNumber)]
FindScan ==
    /\ Proceeds
    /\ finder.files[finder.i] \in finder.folder
    /\ FindScanOf(Lost_in)
    /\ FindStill

\* The scan or the handler panics: main recovers and exits, the output files
\* stay as they are.
FindPanicOf(h) ==
    /\ h.err # ""
    /\ finder' = [finder EXCEPT
                    !.pc = "crashed",
                    !.filesHandled = @ + 1,
                    !.lostMessagesMap = h.map,
                    !.out = h.out,
                    !.scanned = Append(@, FileNumber)]
FindPanic ==
    /\ Proceeds
    /\ finder.files[finder.i] \in finder.folder
    /\ FindPanicOf(Lost_in)
    /\ FindStill

\* The range over files is exhausted.
FindLoopEnd ==
    /\ finder.pc = "loop"
    /\ finder.i > Len(finder.files)
    /\ finder' = [finder EXCEPT !.pc = "finish"]
    /\ FindStill

\* The output files are closed, the empty ones removed.
FindFinish ==
    /\ finder.pc = "finish"
    /\ finder' = [finder EXCEPT !.pc = "done",
                                !.out = Completion(finder.lostMessagesMap, @)]
    /\ FindStill

NextFind ==
    \/ FindSort
    \/ FindSkip
    \/ FindBreak
    \/ FindMissing
    \/ FindScan
    \/ FindPanic
    \/ FindLoopEnd
    \/ FindFinish

SpecFind == InitFind /\ [][NextFind]_vars

(***************************************************************************)
(* SpecStat: a Statistic and a Statistics table under their methods, one   *)
(* call per step.  tally is [pc, s, cum, ops, last]: s the Statistic, cum  *)
(* the Statistics, ops the number of calls made, last (history) the last   *)
(* call with its receiver before the call and its argument.                *)
(***************************************************************************)
MaxOps == 3
MaxValue == 3

\* The values given to Add: message lengths.
StatValues == 1 .. MaxValue

\* "Statistic{Name: name}"
ZeroStatistic(name) == Statistic(name, 0, 0, 0)

\* The statistics the program hands to Join, AddStatistic and AddGroup: the
\* Stat of a file without messages, the literal AddGroup builds (count 0),
\* and statistics built by Add.
StatArguments(name) ==
    {ZeroStatistic(name), Statistic(name, 0, 1, 2), Statistic(name, 0, 2, 4)}
        \cup {Add(ZeroStatistic(name), v) : v \in StatValues}
        \cup {Add(Add(ZeroStatistic(name), 1), v) : v \in StatValues}

\* The tables the program hands to Statistics.Join: data.Queues of a file.
StatTables ==
    {NoStatistics, StatisticsAdd(NoStatistics, QA, 1),
     StatisticsAdd(StatisticsAdd(NoStatistics, QB, MaxValue), QA, 1)}

InitStat ==
    /\ ScanIdle
    /\ toolchain = "go1.16"
    /\ reMatch = <<>>
    /\ PoolIdle
    /\ FinderIdle
    /\ SplitterIdle
    /\ tally = [pc |-> "run", s |-> ZeroStatistic(<<>>), cum |-> NoStatistics,
                ops |-> 0, last |-> [op |-> "none"], log |-> <<>>]

StatStill == UNCHANGED <<scanVars, poolVars, finder, splitter>>

\* An entry of tally.log: the names of the buckets a call on cum touched, and
\* for an AddGroup (group = TRUE) the statistic it was given.
Logged(group, names, stat) == [group |-> group, names |-> names, stat |-> stat]
Calling == tally.pc = "run" /\ tally.ops < MaxOps

\* s.Add(v)
StatAdd ==
    /\ Calling
    /\ \E v \in StatValues :
        tally' = [tally EXCEPT !.s = Add(@, v), !.ops = @ + 1,
                     !.last = [op |-> "Add", s |-> tally.s, value |-> v]]
    /\ StatStill

\* s.Join(other)
StatJoin ==
    /\ Calling
    /\ \E other \in StatArguments(<<>>) :
        tally' = [tally EXCEPT !.s = Join(@, other), !.ops = @ + 1,
                     !.last = [op |-> "Join", s |-> tally.s, other |-> other]]
    /\ StatStill

\* cum.Add(name, v)
CumAdd ==
    /\ Calling
    /\ \E name \in QueueNames, v \in StatValues :
        tally' = [tally EXCEPT !.cum = StatisticsAdd(@, name, v), !.ops = @ + 1,
                     !.log = Append(@, Logged(FALSE, {name}, ZeroStatistic(<<>>))),
                     !.last = [op |-> "cum.Add", cum |-> tally.cum, name |-> name,
                               value |-> v]]
    /\ StatStill

\* cum.AddGroup(name, stat)
CumAddGroup ==
    /\ Calling
    /\ \E name \in QueueNames, stat \in StatArguments(<<>>) :
        tally' = [tally EXCEPT !.cum = AddGroup(@, name, stat), !.ops = @ + 1,
                     !.log = Append(@, Logged(TRUE, {name}, stat)),
                     !.last = [op |-> "cum.AddGroup", cum |-> tally.cum, name |-> name,
                               stat |-> stat]]
    /\ StatStill

\* cum.AddStatistic(stat)
CumAddStatistic ==
    /\ Calling
    /\ \E name \in QueueNames :
        \E stat \in StatArguments(name) :
            tally' = [tally EXCEPT !.cum = AddStatistic(@, stat), !.ops = @ + 1,
                         !.log = Append(@, Logged(FALSE, {name}, ZeroStatistic(<<>>))),
                         !.last = [op |-> "cum.AddStatistic", cum |-> tally.cum,
                                   stat |-> stat]]
    /\ StatStill

\* cum.Join(list)
CumJoin ==
    /\ Calling
    /\ \E list \in StatTables :
        tally' = [tally EXCEPT !.cum = StatisticsJoin(@, list), !.ops = @ + 1,
                     !.log = Append(@, Logged(FALSE, DOMAIN list.index, ZeroStatistic(<<>>))),
                     !.last = [op |-> "cum.Join", cum |-> tally.cum, list |-> list]]
    /\ StatStill

NextStat ==
    \/ StatAdd
    \/ StatJoin
    \/ CumAdd
    \/ CumAddGroup
    \/ CumAddStatistic
    \/ CumJoin

SpecStat == InitStat /\ [][NextStat]_vars

(***************************************************************************)
(* SpecSplit: the "split-messages" command.  main feeds the files to       *)
(* numThreads reader goroutines over filesToHandle; the readers send one   *)
(* WriteData per message over the unbuffered channel toWrite to the one    *)
(* writer goroutine, which appends it to the file of the queue.  splitter  *)
(* is [pc, proc, files, numThreads, fed, buf, filesClosed, writeClosed,    *)
(* doneReading, waited, doneWriting, readers, writer, written]: written    *)
(* maps the path of each output file created to the lines written to it.   *)
(***************************************************************************)
\* base64.StdEncoding: the character of a 6-bit value.
Base64Char(v) ==
    IF v < 26 THEN 65 + v
    ELSE IF v < 52 THEN 71 + v
    ELSE IF v < 62 THEN v - 4
    ELSE IF v = 62 THEN 43 ELSE 47

\* base64.StdEncoding.EncodeToString: 3 bytes give 4 characters, the last
\* group is padded with '='.
RECURSIVE EncodeToString(_)
EncodeToString(d) ==
    IF Len(d) = 0 THEN <<>>
    ELSE IF Len(d) = 1
    THEN <<Base64Char(d[1] \div 4), Base64Char((d[1] % 4) * 16), 61, 61>>
    ELSE IF Len(d) = 2
    THEN <<Base64Char(d[1] \div 4), Base64Char((d[1] % 4) * 16 + d[2] \div 16),
           Base64Char((d[2] % 16) * 4), 61>>
    ELSE <<Base64Char(d[1] \div 4), Base64Char((d[1] % 4) * 16 + d[2] \div 16),
           Base64Char((d[2] % 16) * 4 + d[3] \div 64), Base64Char(d[3] % 64)>>
            \o EncodeToString(SubSeq(d, 4, Len(d)))

\* "WriteData{file: msg.Queue, value: fmt.Sprintln(base64...(msg.Data))}"
WriteData(msg) == [file |-> msg.Queue, value |-> EncodeToString(msg.Data) \o <<10>>]

\* "if re == nil || re.MatchString(msg.Queue)"
Selected(re, msg) == re = <<>> \/ MatchString(re, msg.Queue)

\* What the handler of a reader sends while the file is scanned: one
\* WriteData per selected message, in the order of the scan.
ToWrite(re, msgs) ==
    [k \in 1 .. Len(SelectSeq(msgs, LAMBDA m : Selected(re, m))) |->
        WriteData(SelectSeq(msgs, LAMBDA m : Selected(re, m))[k])]

\* "numThreads := int(math.Min(float64(len(files)), float64(*threads)))"
NumThreads(nFiles, n) == IF nFiles < n THEN nFiles ELSE n

\* The values of *threads after "if *threads == 0 { ... NumCPU() / 2 }".
SplitThreads ==
    {ResolveThreads(flag, numCPU) : flag \in 0 .. MaxThreads, numCPU \in {1, 2 * MaxThreads}}

InitSplit ==
    /\ ScanIdle
    /\ toolchain \in Toolchains
    /\ reMatch \in FullFilters
    /\ PoolIdle
    /\ FinderIdle
    /\ TallyIdle
    /\ \E fs \in FileLists, n \in SplitThreads :
        splitter = [pc |-> "feed", proc |-> "running", files |-> fs,
                    numThreads |-> NumThreads(Len(fs), n), fed |-> 0,
                    buf |-> <<>>, filesClosed |-> FALSE, writeClosed |-> FALSE,
                    doneReading |-> 0, waited |-> 0, doneWriting |-> FALSE,
                    readers |-> [r \in 1 .. NumThreads(Len(fs), n) |->
                                    [st |-> "recv", pending |-> <<>>, err |-> ""]],
                    writer |-> [st |-> "recv", item |-> <<>>],
                    written |-> [f \in {} |-> <<>>]]

SplitStill == UNCHANGED <<scanVars, poolVars, finder, tally>>
Splitting == splitter.pc # "off" /\ splitter.proc = "running"

\* "filesToHandle <- file": the channel has capacity numThreads.
SplitFeed ==
    /\ Splitting /\ splitter.pc = "feed"
    /\ splitter.fed < Len(splitter.files)
    /\ Len(splitter.buf) < splitter.numThreads
    /\ splitter' = [splitter EXCEPT !.buf = Append(@, splitter.files[splitter.fed + 1]),
                                    !.fed = @ + 1]
    /\ SplitStill

\* main is at "filesToHandle <- file" on a channel without buffer and there is
\* no reader; the writer waits on toWrite: the runtime ends the process.
SplitDeadlock ==
    /\ Splitting /\ splitter.pc = "feed"
    /\ splitter.fed < Len(splitter.files)
    /\ splitter.numThreads = 0
    /\ splitter' = [splitter EXCEPT !.proc = "deadlock"]
    /\ SplitStill

\* "close(filesToHandle)"
SplitCloseFiles ==
    /\ Splitting /\ splitter.pc = "feed"
    /\ splitter.fed = Len(splitter.files)
    /\ splitter' = [splitter EXCEPT !.filesClosed = TRUE, !.pc = "waitRead"]
    /\ SplitStill

\* A reader receives a file, reads it and starts the scan, sc being what the
\* scan gives.  must(ReadRabbitFile(...)) panics on a file that cannot be
\* read; nothing recovers a panic in the goroutine: the process ends.
ReaderTakeOf(r, sc) ==
    splitter' =
        [splitter EXCEPT
            !.buf = Tail(@),
            !.proc = IF sc.warn THEN "crashed" ELSE @,
            !.readers[r] = IF sc.warn THEN [st |-> "panic", pending |-> <<>>, err |-> "read"]
                           ELSE [st |-> "send",
                                 pending |-> ToWrite(reMatch, sc.file.Messages),
                                 err |-> sc.err]]

ReaderTake ==
    \E r \in DOMAIN splitter.readers :
        /\ Splitting
        /\ splitter.readers[r].st = "recv"
        /\ splitter.buf # <<>>
        /\ ReaderTakeOf(r, ScanFile(Head(splitter.buf), toolchain, <<>>))
        /\ SplitStill

\* "toWrite <- WriteData{...}" in the handler meets "writeData, more :=
\* <-toWrite" in the writer (the channel has no buffer); a send on the closed
\* channel panics.
ReaderSend ==
    \E r \in DOMAIN splitter.readers :
        /\ Splitting
        /\ splitter.readers[r].st = "send"
        /\ splitter.readers[r].pending # <<>>
        /\ splitter.writeClosed \/ splitter.writer.st = "recv"
        /\ splitter' =
            IF splitter.writeClosed
            THEN [splitter EXCEPT !.proc = "crashed", !.readers[r].st = "panic"]
            ELSE [splitter EXCEPT
                    !.readers[r].pending = Tail(@),
                    !.writer = [st |-> "write",
                                item |-> <<Head(splitter.readers[r].pending)>>]]
        /\ SplitStill

\* The scan of the file ends: ProcessMessages returns and the reader goes
\* back to the receive, or it raises the error of the scan and the process
\* ends.
ReaderScanned ==
    \E r \in DOMAIN splitter.readers :
        /\ Splitting
        /\ splitter.readers[r].st = "send"
        /\ splitter.readers[r].pending = <<>>
        /\ splitter' =
            IF splitter.readers[r].err = ""
            THEN [splitter EXCEPT !.readers[r].st = "recv"]
            ELSE [splitter EXCEPT !.proc = "crashed", !.readers[r].st = "panic"]
        /\ SplitStill

\* "doneReading <- true; return": filesToHandle is closed and empty.
ReaderDone ==
    \E r \in DOMAIN splitter.readers :
        /\ Splitting
        /\ splitter.readers[r].st = "recv"
        /\ splitter.buf = <<>> /\ splitter.filesClosed
        /\ splitter.doneReading < splitter.numThreads
        /\ splitter' = [splitter EXCEPT !.readers[r].st = "exit", !.doneReading = @ + 1]
        /\ SplitStill

\* The writer: os.Create on the first use of the path, WriteString.
Wrote(written, item) ==
    [f \in (DOMAIN written) \cup {item.file} |->
        IF f = item.file
        THEN (IF f \in DOMAIN written THEN written[f] ELSE <<>>) \o <<item.value>>
        ELSE written[f]]

WriterWrite ==
    /\ Splitting
    /\ splitter.writer.st = "write"
    /\ splitter' = [splitter EXCEPT !.written = Wrote(@, splitter.writer.item[1]),
                                    !.writer = [st |-> "recv", item |-> <<>>]]
    /\ SplitStill

\* "doneWriting <- true; return": toWrite is closed.
WriterDone ==
    /\ Splitting
    /\ splitter.writer.st = "recv"
    /\ splitter.writeClosed
    /\ splitter' = [splitter EXCEPT !.writer.st = "exit", !.doneWriting = TRUE]
    /\ SplitStill

\* "<-doneReading", numThreads times.
SplitAwaitReader ==
    /\ Splitting /\ splitter.pc = "waitRead"
    /\ splitter.waited < splitter.numThreads
    /\ splitter.doneReading > 0
    /\ splitter' = [splitter EXCEPT !.doneReading = @ - 1, !.waited = @ + 1]
    /\ SplitStill

\* "close(toWrite)"
SplitCloseWrite ==
    /\ Splitting /\ splitter.pc = "waitRead"
    /\ splitter.waited = splitter.numThreads
    /\ splitter' = [splitter EXCEPT !.writeClosed = TRUE, !.pc = "waitWrite"]
    /\ SplitStill

\* "<-doneWriting" and the end of main.
SplitFinish ==
    /\ Splitting /\ splitter.pc = "waitWrite"
    /\ splitter.doneWriting
    /\ splitter' = [splitter EXCEPT !.doneWriting = FALSE, !.pc = "done", !.proc = "exited"]
    /\ SplitStill

NextSplit ==
    \/ SplitFeed
    \/ SplitDeadlock
    \/ SplitCloseFiles
    \/ ReaderTake
    \/ ReaderSend
    \/ ReaderScanned
    \/ ReaderDone
    \/ WriterWrite
    \/ WriterDone
    \/ SplitAwaitReader
    \/ SplitCloseWrite
    \/ SplitFinish

SpecSplit == InitSplit /\ [][NextSplit]_vars

(***************************************************************************)
(* Properties of the scan (SpecScan)                                       *)
(***************************************************************************)
\* The blocks of a record, last first, and their total length.
RECURSIVE Reversed(_)
Reversed(blocks) ==
    IF blocks = <<>> THEN <<>> ELSE Reversed(Tail(blocks)) \o Head(blocks)

RECURSIVE TotalLen(_)
TotalLen(blocks) ==
    IF blocks = <<>> THEN 0 ELSE Len(Head(blocks)) + TotalLen(Tail(blocks))

\* Message k of the report comes from record i of the file.
FromRecord(k, i) == rf.Messages[k].Position = RecordOffset(input, i)

\* C8: for a framed record with N > 1 blocks b1..bN in file order, the body
\* of the message emitted for it is bN || ... || b1, and the length of that
\* body is the sum of the block lengths.
C8_ReverseReassembly ==
    \A k \in 1 .. Len(rf.Messages) : \A i \in 1 .. Len(input.recs) :
        (/\ UseLen(input.name)
         /\ FromRecord(k, i)
         /\ Len(input.recs[i].blocks) > 1)
        => /\ rf.Messages[k].Data = Reversed(input.recs[i].blocks)
           /\ Len(rf.Messages[k].Data) = TotalLen(input.recs[i].blocks)

\* A message was emitted for a framed record of three blocks, the first and
\* the last of which differ.
C8_Witness ==
    \E k \in 1 .. Len(rf.Messages) : \E i \in 1 .. Len(input.recs) :
        /\ UseLen(input.name)
        /\ FromRecord(k, i)
        /\ Len(input.recs[i].blocks) = 3
        /\ input.recs[i].blocks[1] # input.recs[i].blocks[3]

\* C9: once the scan of a well-formed .rdq file of one framed record (queue
\* Q, body of length L split into k >= 1 blocks) is over, and no filter is
\* set, the report holds exactly one message, of queue Q and body length L.
C9_RoundTrip ==
    (/\ scanSt # "run"
     /\ reMatch = <<>>
     /\ UseLen(input.name)
     /\ Len(input.recs) = 1
     /\ input.recs[1].kind = "ok")
    => /\ scanSt = "done"
       /\ Len(rf.Messages) = 1
       /\ rf.Messages[1].Queue = input.recs[1].q
       /\ Len(rf.Messages[1].Data) = TotalLen(input.recs[1].blocks)

\* C10: every message of the report has Length = len(Data).
C10_LengthIsBodyLength ==
    \A k \in 1 .. Len(rf.Messages) :
        rf.Messages[k].Length = Len(rf.Messages[k].Data)

\* Records 1 .. i-1 of the file are well-formed records of one block.
PlainBefore(i) ==
    \A j \in 1 .. (i - 1) :
        input.recs[j].kind = "ok" /\ Len(input.recs[j].blocks) = 1

\* C11: in an index file, a record whose block count is not 1 ends the scan
\* with a structure error, no message is emitted for that record, and the
\* report of the file is empty.
C11_IndexStructureError ==
    \A i \in 1 .. Len(input.recs) :
        (/\ scanSt # "run"
         /\ ~UseLen(input.name) /\ ~FramedOnDisk(input.name)
         /\ input.recs[i].kind = "ok" /\ Len(input.recs[i].blocks) # 1
         /\ PlainBefore(i))
        => /\ scanSt = "error" /\ scanErr = "structure"
           /\ \A k \in 1 .. Len(rf.Messages) : ~FromRecord(k, i)
           /\ rf = NewRabbitFile(input.name)

\* C12: a file is scanned framed unless its extension is .idx: .rdq and any
\* other extension are framed, so a file that is no index file is never
\* rejected for holding a record of several blocks.
C12_FramedUnlessIndex ==
    scanSt # "run"
    => /\ UseLen(input.name) <=> ~HasSuffix(input.name, idxSuffix)
       /\ ~HasSuffix(input.name, idxSuffix) => scanErr # "structure"

\* C13: in a framed file whose first frame is followed by a byte other than
\* 0xFF, the scan goes on: it ends without error and the report holds the
\* message of that frame and the message of the frame after it.
C13_BadFrameEndIsWarning ==
    (/\ scanSt # "run"
     /\ UseLen(input.name)
     /\ reMatch = <<>>
     /\ Len(input.recs) = 2
     /\ input.recs[1].kind = "badend" /\ input.recs[2].kind = "ok")
    => /\ scanSt = "done"
       /\ \A i \in 1 .. 2 : \E k \in 1 .. Len(rf.Messages) : FromRecord(k, i)

\* C14: when a record has no marker (in its frame, or in the rest of an
\* index file), the scan of the file ends there without an error, and the
\* report holds the messages of the records before it that pass the filter.
C14_MissingMarkerEndsCleanly ==
    \A i \in 1 .. Len(input.recs) :
        (/\ scanSt # "run"
         /\ input.recs[i].kind = "nomarker"
         /\ PlainBefore(i))
        => /\ scanSt = "done" /\ scanErr = ""
           /\ \A j \in 1 .. (i - 1) :
                 (reMatch = <<>> \/ MatchString(reMatch, input.recs[j].q))
                 => \E k \in 1 .. Len(rf.Messages) : FromRecord(k, j)
           /\ \A j \in i .. Len(input.recs) :
                 \A k \in 1 .. Len(rf.Messages) : ~FromRecord(k, j)

\* The scan of a framed file stopped at a second record without marker, and
\* the message of the first record is in the report.
C14_Witness ==
    /\ scanSt = "done"
    /\ UseLen(input.name)
    /\ Len(input.recs) = 2
    /\ input.recs[2].kind = "nomarker"
    /\ Len(rf.Messages) = 1
    /\ FromRecord(1, 1)

\* The report of the file under scan when no filter is set.
Unfiltered ==
    ProcessMessages(FileBytes(input), ReadFileCap(toolchain, Len(FileBytes(input))),
                    UseLen(input.name), <<>>, 0, NewRabbitFile(input.name)).file

\* The report built from the messages of msgs that the filter re keeps.
RECURSIVE Kept(_, _, _, _)
Kept(file, re, msgs, i) ==
    IF i > Len(msgs) THEN file
    ELSE Kept(IF re = <<>> \/ MatchString(re, msgs[i].Queue)
              THEN Handle(file, <<>>, msgs[i]) ELSE file,
              re, msgs, i + 1)

\* The report rf of a finished scan against all, the unfiltered report.
FilteredFrom(all) ==
    /\ rf = Kept(NewRabbitFile(input.name), reMatch, all.Messages, 1)
    /\ (reMatch = <<>> \/ reMatch = <<QueueNames>>) => rf = all

\* C15: with a filter, every message of the report has a queue name that
\* matches it, and the report (messages, file statistic, per-queue table) is
\* the one built from the matching messages alone; with no filter, or one
\* that matches every queue, the report is that of every scanned message.
C15_FilterSoundness ==
    /\ reMatch # <<>>
       => \A k \in 1 .. Len(rf.Messages) : MatchString(reMatch, rf.Messages[k].Queue)
    /\ scanSt # "run" => FilteredFrom(Unfiltered)

\* A scan with a filter on one queue has ended after a message of that queue
\* was kept and a message of another queue was dropped.
C15_Witness ==
    /\ scanSt = "done"
    /\ reMatch = <<{QA}>>
    /\ Len(rf.Messages) = 1
    /\ Len(input.recs) = 2
    /\ input.recs[2].kind = "ok" /\ input.recs[2].q = QB
    /\ rbPos = Len(FileBytes(input))

(***************************************************************************)
(* Properties of the "full" command (Spec)                                 *)
(***************************************************************************)
Ended == proc \in {"exited", "crashed", "deadlock"}

\* s and t hold the same elements, each once.
SameOnce(s, t) ==
    /\ Len(s) = Len(t)
    /\ \A i \in 1 .. Len(t) : Cardinality({j \in 1 .. Len(s) : s[j] = t[i]}) = 1

\* C1: a parse error raised by the scan of a file is trapped in the parser
\* worker: the process keeps running (and the worker goes on to report).
C1_ParseErrorTrapped ==
    \A w \in DOMAIN workers : workers[w].err # "" => proc = "running"

\* C2: when the scan of a file raises a parse error, what the worker holds for
\* that file is empty: no message, a zero statistic, no per-queue entry.
C2_FailedFileEmpty ==
    \A w \in DOMAIN workers :
        workers[w].err # "" => workers[w].data = NewRabbitFile(workers[w].file)

\* C3: when the run is over, every file of the list has been taken from jobs
\* exactly once and reported to the coordinator exactly once.
C3_EveryFileReportedOnce ==
    (Ended /\ Len(workers) >= 1)
    => /\ SameOnce(hist.taken, files)
       /\ SameOnce(hist.order, files)

\* C4: the number of parser workers started is max(1, threads).
C4_AtLeastOneWorker ==
    pc # "start" => Len(workers) = Max(1, threads)

\* The sizes of the messages of queue q in the files of the list, as a
\* sequence: what a scan of each file on its own reports.
RECURSIVE SizesOf(_, _, _)
SizesOf(q, msgs, i) ==
    IF i > Len(msgs) THEN <<>>
    ELSE (IF msgs[i].Queue = q THEN <<msgs[i].Length>> ELSE <<>>) \o SizesOf(q, msgs, i + 1)

\* The report of each file of the folder scanned on its own.
Alone ==
    [tc \in Toolchains, re \in FullFilters, f \in {c.name : c \in Catalog} |->
        ScanFile(f, tc, re).file]

RECURSIVE QueueSizes(_, _)
QueueSizes(q, i) ==
    IF i > Len(files) THEN <<>>
    ELSE SizesOf(q, Alone[toolchain, reMatch, files[i]].Messages, 1) \o QueueSizes(q, i + 1)

RECURSIVE Sum(_)
Sum(sizes) == IF sizes = <<>> THEN 0 ELSE Head(sizes) + Sum(Tail(sizes))

Smallest(sizes) == CHOOSE v \in {sizes[i] : i \in 1 .. Len(sizes)} :
                       \A i \in 1 .. Len(sizes) : v <= sizes[i]
Largest(sizes) == CHOOSE v \in {sizes[i] : i \in 1 .. Len(sizes)} :
                      \A i \in 1 .. Len(sizes) : v >= sizes[i]

QueueEntry(q) == stats.queueStat.List[stats.queueStat.index[q]]

\* The entry of queue q holds the totals of sizes.
TotalsAre(q, sizes) ==
    IF sizes = <<>> THEN q \notin DOMAIN stats.queueStat.index
    ELSE /\ q \in DOMAIN stats.queueStat.index
         /\ QueueEntry(q).Name = q
         /\ QueueEntry(q).count = Len(sizes)
         /\ Messages(QueueEntry(q)) = Len(sizes)
         /\ QueueEntry(q).sum = Sum(sizes)
         /\ Minimum(QueueEntry(q)) = Smallest(sizes)
         /\ Maximum(QueueEntry(q)) = Largest(sizes)

\* C5: once every report is joined, the per-queue totals are those of the
\* messages of the files, whatever the thread count and the order in which
\* the reports arrived: a queue has an entry iff it has a message, and the
\* entry has the number, the sum, the smallest and the largest of the sizes.
C5_TotalsIndependentOfOrder ==
    pc \in {"wait", "done"} => \A q \in QueueNames : TotalsAre(q, QueueSizes(q, 1))

\* Two reports arrived in the reverse of the order of submission, both with
\* messages of one queue, of different sizes, and all is joined.
C5_Witness ==
    /\ pc \in {"wait", "done"}
    /\ threads > 1
    /\ Len(files) = 2
    /\ hist.order = <<files[2], files[1]>>
    /\ \E q \in DOMAIN stats.queueStat.index :
          /\ QueueEntry(q).count >= 2
          /\ Minimum(QueueEntry(q)) < Maximum(QueueEntry(q))

\* C6: with replay, the program does not exit before every message sent on
\* publish has been published: none is left in the channel.
C6_AllPublishedBeforeExit ==
    (proc = "exited" /\ cfg.replay)
    => /\ publish.buf = <<>>
       /\ hist.published = hist.sent

\* The messages a summary counts.
RECURSIVE SumOver(_, _)
SumOver(f, keys) ==
    IF keys = {} THEN 0
    ELSE LET k == CHOOSE x \in keys : TRUE IN f[k] + SumOver(f, keys \ {k})

RECURSIVE SummariesTotal(_)
SummariesTotal(i) ==
    IF i > Len(publishers) THEN 0
    ELSE SumOver(publishers[i].published, DOMAIN publishers[i].published)
         + SummariesTotal(i + 1)

\* C7: in the revision with the completion channel, when the coordinator has
\* received the W summaries and terminated, every publisher has exited after
\* draining publish and the counts of the summaries add up to the number of
\* messages sent on publish.
C7_SummariesCountEveryMessage ==
    (proc = "exited" /\ cfg.replay /\ cfg.rev = "part_001")
    => /\ \A p \in DOMAIN publishers : publishers[p].st = "exit"
       /\ SummariesTotal(1) = hist.sent

(***************************************************************************)
(* Claims on SpecFind                                                      *)
(***************************************************************************)
Finding == finder.pc # "off"
Configured == DOMAIN finder.out

\* C16: in the lost-message finder the number of lines written to the
\* output file of a configured queue never exceeds the queue's quota,
\* however its messages are spread over the files.
C16_QuotaNeverExceeded ==
    Finding => \A q \in Configured : finder.out[q].lines <= finder.quotas[q]

\* C17: once every configured queue has reached its quota, the file loop
\* opens and scans no further file: it stops before the next file.
AllFound ==
    \A q \in DOMAIN finder.lostMessagesMap :
        finder.lostMessagesMap[q].found >= finder.lostMessagesMap[q].toFind
C17_StopsWhenAllFound ==
    [][(AtFile /\ ~Blank /\ AllFound)
        => (finder'.scanned = finder.scanned /\ finder'.i = finder.i)]_vars

\* C18: when the finder completes, the output file of a configured queue
\* exists exactly if at least one message was written for the queue, and an
\* existing file holds exactly found lines.
C18_OutputFilesAtCompletion ==
    (Finding /\ finder.pc = "done")
    => \A q \in Configured :
        /\ finder.out[q].exists <=> finder.out[q].lines > 0
        /\ finder.out[q].exists => finder.out[q].lines = finder.lostMessagesMap[q].found

\* A completed run that kept the file of one queue and removed the file of
\* another.
C18_Witness ==
    /\ Finding
    /\ finder.pc = "done"
    /\ Len(finder.scanned) >= 1
    /\ \E q \in Configured : finder.out[q].exists /\ finder.out[q].lines = 2
    /\ \E q \in Configured : ~finder.out[q].exists /\ finder.quotas[q] > 0

\* C19: the files are scanned in strictly descending order of the number in
\* their name: no file is scanned before a file with a larger number.
C19_DescendingOrder ==
    Finding => \A a, b \in DOMAIN finder.scanned :
                  a < b => finder.scanned[a] > finder.scanned[b]

(***************************************************************************)
(* Claims on SpecStat                                                      *)
(***************************************************************************)
Smaller(a, b) == IF a < b THEN a ELSE b

\* C20: Statistic.Join(other) adds other's count, messages and sum to the
\* receiver's and takes the smaller minimum and the larger maximum, for
\* every other: an other with count 0 leaves count, minimum and maximum as
\* they are, and an empty receiver takes other's minimum and maximum.
C20_JoinIsMonoidalUpdate ==
    (tally.pc = "run" /\ tally.last.op = "Join")
    => /\ tally.s.count = tally.last.s.count + tally.last.other.count
       /\ tally.s.messages = tally.last.s.messages + tally.last.other.messages
       /\ tally.s.sum = tally.last.s.sum + tally.last.other.sum
       /\ tally.last.other.count = 0
            => /\ tally.s.count = tally.last.s.count
               /\ tally.s.min = tally.last.s.min
               /\ tally.s.max = tally.last.s.max
       /\ (tally.last.s.count = 0 /\ tally.last.other.count > 0)
            => /\ Minimum(tally.s) = Minimum(tally.last.other)
               /\ Maximum(tally.s) = Maximum(tally.last.other)
       /\ (tally.last.s.count > 0 /\ tally.last.other.count > 0)
            => /\ Minimum(tally.s) = Smaller(Minimum(tally.last.s), Minimum(tally.last.other))
               /\ Maximum(tally.s) = Max(Maximum(tally.last.s), Maximum(tally.last.other))

\* Two statistics agree on (count, messages, sum, min, max).
Agree(a, b) ==
    /\ a.count = b.count
    /\ a.messages = b.messages
    /\ a.sum = b.sum
    /\ Minimum(a) = Minimum(b)
    /\ Maximum(a) = Maximum(b)

\* C21: Join is commutative and associative: for the receiver a and the
\* argument b of a Join, Join(a, b) agrees with Join(b, a), and for every
\* statistic c, Join(Join(a, b), c) agrees with Join(a, Join(b, c)).
C21_JoinCommutativeAssociative ==
    (tally.pc = "run" /\ tally.last.op = "Join")
    => /\ Agree(tally.s, Join(tally.last.other, tally.last.s))
       /\ \A c \in StatArguments(<<>>) :
            Agree(Join(tally.s, c), Join(tally.last.s, Join(tally.last.other, c)))

\* min <= average <= max for an entry, average being sum / count.
Bracketed(e) ==
    e.count > 0 => /\ Minimum(e) * e.count <= e.sum
                   /\ e.sum <= Maximum(e) * e.count

\* C22: after any sequence of Add, Join, AddStatistic and AddGroup, every
\* entry with count > 0 has min <= average <= max, average = sum / count.
C22_AverageBetweenMinAndMax ==
    tally.pc = "run"
    => /\ Bracketed(tally.s)
       /\ \A i \in 1 .. Len(tally.cum.List) : Bracketed(tally.cum.List[i])

\* A statistic and a table entry that each cumulate different values.
C22_Witness ==
    /\ tally.pc = "run"
    /\ tally.s.count = 2
    /\ Minimum(tally.s) < Maximum(tally.s)
    /\ \E i \in 1 .. Len(tally.cum.List) :
        /\ tally.cum.List[i].count = 2
        /\ Minimum(tally.cum.List[i]) * 2 < tally.cum.List[i].sum
        /\ tally.cum.List[i].sum < Maximum(tally.cum.List[i]) * 2

\* The names of a table, in list order.
Names(cum) == [i \in 1 .. Len(cum.List) |-> cum.List[i].Name]
IsPrefix(a, b) == Len(a) <= Len(b) /\ SubSeq(b, 1, Len(a)) = a

\* The names a call inserts, in the order the call meets them.
RECURSIVE FirstSeen(_, _, _)
FirstSeen(seen, list, i) ==
    IF i > Len(list) THEN seen
    ELSE FirstSeen(IF \E k \in 1 .. Len(seen) : seen[k] = list[i] THEN seen
                   ELSE Append(seen, list[i]), list, i + 1)
Inserted(last) ==
    IF last.op \in {"cum.Add", "cum.AddGroup"} THEN <<last.name>>
    ELSE IF last.op = "cum.AddStatistic" THEN <<last.stat.Name>>
    ELSE IF last.op = "cum.Join" THEN Names(last.list)
    ELSE <<>>

\* C23: after any sequence of Add, AddGroup, AddStatistic and Join on a
\* Statistics table the list holds one entry per distinct name, the index
\* maps each name to its entry, the entries are in the order in which their
\* names were first inserted, and Add(name, v) on a new name yields the
\* entry count = 1, messages = 1, sum = min = max = v.
C23_TableKeepsInsertionOrder ==
    tally.pc = "run"
    => /\ \A i, j \in 1 .. Len(tally.cum.List) :
            tally.cum.List[i].Name = tally.cum.List[j].Name => i = j
       /\ DOMAIN tally.cum.index = {tally.cum.List[i].Name : i \in 1 .. Len(tally.cum.List)}
       /\ \A n \in DOMAIN tally.cum.index : tally.cum.List[tally.cum.index[n]].Name = n
       /\ tally.last.op \in {"cum.Add", "cum.AddGroup", "cum.AddStatistic", "cum.Join"}
            => Names(tally.cum) = FirstSeen(Names(tally.last.cum), Inserted(tally.last), 1)
       /\ (tally.last.op = "cum.Add" /\ tally.last.name \notin DOMAIN tally.last.cum.index)
            => /\ tally.cum.List[Len(tally.cum.List)].Name = tally.last.name
               /\ tally.cum.List[Len(tally.cum.List)].count = 1
               /\ tally.cum.List[Len(tally.cum.List)].messages = 1
               /\ tally.cum.List[Len(tally.cum.List)].sum = tally.last.value
               /\ tally.cum.List[Len(tally.cum.List)].min = <<tally.last.value>>
               /\ tally.cum.List[Len(tally.cum.List)].max = <<tally.last.value>>

\* A table of two entries whose second was inserted by Add on a new name,
\* after two insertions under the first name.
C23_Witness ==
    /\ tally.pc = "run"
    /\ Names(tally.cum) = <<QB, QA>>
    /\ tally.last.op = "cum.Add"
    /\ tally.last.name = QA
    /\ Names(tally.last.cum) = <<QB>>
    /\ tally.last.cum.List[1].count = 2

(***************************************************************************)
(* Claims on Spec: the publications                                        *)
(***************************************************************************)
methodPattern == <<109, 101, 116, 104, 111, 100, 58>>
HasMethodPattern(body) ==
    \E i \in 1 .. Len(body) - Len(methodPattern) + 1 :
        SubSeq(body, i, i + Len(methodPattern) - 1) = methodPattern
PushBody(body) == body # <<>> /\ body[1] # ByteI

\* C24: a published message carries a cmf header exactly if it is a push
\* message, and the header is "{url:<queue>,method:<method>,zip:true}" with
\* a method that is never empty and is "Process" when the message holds no
\* "method:" pattern.
C24_PushHeader ==
    \A pub \in hist.pubs :
        /\ pub.Headers # <<>> <=> PushBody(pub.Body)
        /\ pub.Headers # <<>>
            => /\ pub.Headers[1] # Cmf(pub.Queue, <<>>)
               /\ ~HasMethodPattern(pub.Body)
                    => pub.Headers[1] = Cmf(pub.Queue, defaultMethod)

\* C25: a message with an empty body is not a push message and raises no
\* fault in the publisher: no publisher panics, and a publication carries
\* the push header exactly if its body is not empty and does not start
\* with 'i'.
C25_EmptyBodyIsNotPush ==
    /\ \A p \in DOMAIN publishers : ~publishers[p].panicking
    /\ \A pub \in hist.pubs : pub.Headers # <<>> <=> PushBody(pub.Body)

(***************************************************************************)
(* Claims on SpecScan: the reads of RabbitBlob                             *)
(***************************************************************************)
\* The blob of the file under scan, its cursor at pos.
FileBlobAt(pos) ==
    [Blob(0, Len(FileBytes(input)), ReadFileCap(toolchain, Len(FileBytes(input))))
        EXCEPT !.pos = pos]

\* A read of w bytes at pos came back with the value of the w bytes there
\* and the cursor w further.
ReadOf(r, pos, w) ==
    /\ r.ok
    /\ r.v = FieldValue(FileBytes(input), pos, w)
    /\ r.b.pos = pos + w

\* C26: ReadUInt32 succeeds whenever at least 4 bytes remain after the
\* cursor, also when only 4 to 7 remain, returns the big-endian value of
\* these 4 bytes and advances the cursor by 4; ReadUInt64 does the same with
\* 8 bytes.
C26_ReadsNeedOnlyTheirWidth ==
    scanSt # "idle"
    => \A pos \in 0 .. Len(FileBytes(input)) :
        /\ pos + 4 <= Len(FileBytes(input))
            => ReadOf(ReadUInt32(FileBytes(input), FileBlobAt(pos)), pos, 4)
        /\ pos + 8 <= Len(FileBytes(input))
            => ReadOf(ReadUInt64(FileBytes(input), FileBlobAt(pos)), pos, 8)

\* C27: in every state of a scan 0 <= pos <= len(data), and a ReadBytes,
\* ReadUInt32 or ReadUInt64 that would move the cursor past len(data), or a
\* ReadBytes of a negative length, raises an error and returns no data: the
\* record of a file that ends before the end of its last block gives an
\* error and no message.
C27_CursorStaysInData ==
    scanSt # "idle"
    => /\ 0 <= rbPos /\ rbPos <= Len(FileBytes(input))
       /\ \A pos \in 0 .. Len(FileBytes(input)) :
            /\ ~ReadBytes(FileBytes(input), FileBlobAt(pos),
                          Len(FileBytes(input)) - pos + 1).ok
            /\ ~ReadBytes(FileBytes(input), FileBlobAt(pos), 0 - Huge).ok
            /\ pos + 4 > Len(FileBytes(input))
                => ~ReadUInt32(FileBytes(input), FileBlobAt(pos)).ok
            /\ pos + 8 > Len(FileBytes(input))
                => ~ReadUInt64(FileBytes(input), FileBlobAt(pos)).ok
       /\ (scanSt # "run" /\ input.recs[1].kind = "short")
            => scanSt = "error" /\ rf.Messages = <<>>

(***************************************************************************)
(* Claims on SpecScan: the queue name and the order of the messages        *)
(***************************************************************************)
\* The records at or after record i that hold an exchange section.
Named(i) == {j \in i .. Len(input.recs) : input.recs[j].kind # "noexchange"}

\* C28: the queue name of a message at position P is the name of the first
\* "exchange" section at or after P: the bytes after the u32 len that is 9
\* bytes after the start of "exchange", or, when that len is 0, after a
\* second u32 len 6 bytes further; when no "exchange" is at or after P the
\* scan of the file is aborted with an error and the message is not emitted.
C28_QueueName ==
    /\ \A k \in 1 .. Len(rf.Messages) : \A i \in 1 .. Len(input.recs) :
        FromRecord(k, i)
        => /\ Named(i) # {}
           /\ rf.Messages[k].Queue =
                input.recs[CHOOSE j \in Named(i) : \A m \in Named(i) : j <= m].q
    /\ \A i \in 1 .. Len(input.recs) :
        (scanSt # "run" /\ input.recs[i].kind = "noexchange" /\ Named(i) = {}
         /\ \A j \in 1 .. (i - 1) : input.recs[j].kind = "ok")
        => scanSt = "error" /\ scanErr = "queue"

\* A message whose name was read after the second len.
C28_Witness ==
    /\ scanSt = "done"
    /\ input.recs[1].kind = "far"
    /\ input.recs[1].q = QB
    /\ Len(rf.Messages) = 1
    /\ rf.Messages[1].Queue = QB

\* C29: the messages of a report are in file order: their Position values
\* are strictly increasing, at every point of the scan.
C29_PositionsIncrease ==
    \A k \in 1 .. (Len(rf.Messages) - 1) :
        rf.Messages[k].Position < rf.Messages[k + 1].Position

\* A report with the messages of two records of the file.
C29_Witness ==
    /\ Len(input.recs) >= 2
    /\ Len(rf.Messages) >= 2
    /\ FromRecord(1, 1)
    /\ FromRecord(2, 2)

Times(seq, f) == Cardinality({k \in 1 .. Len(seq) : seq[k] = f})

\* The reports of file f that a fileHandler holds at its send, and those in
\* results.
HeldReports(f) == {w \in DOMAIN workers : workers[w].st = "send" /\ workers[w].file = f}
BufferedReports(f) == {k \in 1 .. Len(results) : results[k].Stat.Name = f}

Expected == {ByteL, ByteM, ByteFF, 1}

\* The offset of the byte that ends the frame of record i.
FrameEnd(i) == RecordOffset(input, i + 1) - 1

\* AssertByte(mustBe) on blob b of file name, r being what it returns: the
\* cursor is one further when the byte under it is mustBe, else it has not
\* moved and the error names mustBe, that byte, the cursor and the file.
AssertsAsClaimed(F, b, mustBe, name, r) ==
    IF F[b.pos + 1] = mustBe
    THEN r.ok /\ r.b.pos = b.pos + 1
    ELSE /\ ~r.ok
         /\ r.err = "assert"
         /\ r.b.pos = b.pos
         /\ AssertRaise(F, ReadBytes(F, b, 1), mustBe, name)
              = [expected |-> mustBe, got |-> F[b.pos + 1], at |-> b.pos, name |-> name]

AssertsInFile(F, cap, name) ==
    \A pos \in 0 .. (Len(F) - 1) : \A mustBe \in Expected :
        AssertsAsClaimed(F, [Blob(0, Len(F), cap) EXCEPT !.pos = pos], mustBe, name,
                         AssertByte(F, [Blob(0, Len(F), cap) EXCEPT !.pos = pos], mustBe))

\* C32: AssertByte(b) with the cursor on a byte of the data moves the cursor
\* by exactly 1 when that byte is b; otherwise it raises an error that names
\* the byte expected, the byte found, the offset and the file, and the
\* cursor is where it was, on the byte that failed: a scan that ends on a
\* frame with a wrong last byte has its cursor on that byte.
C32_AssertByte ==
    /\ (scanSt = "run" /\ rbPos = 0)
        => AssertsInFile(FileBytes(input), ReadFileCap(toolchain, Len(FileBytes(input))),
                         input.name)
    /\ (scanSt = "error" /\ scanErr = "assert" /\ UseLen(input.name)
        /\ input.recs[1].kind = "badend")
        => rbPos = FrameEnd(1)

\* A scan ended by AssertByte(0xff) on the last byte of the first frame.
C32_Witness ==
    /\ scanSt = "error"
    /\ scanErr = "assert"
    /\ UseLen(input.name)
    /\ input.recs[1].kind = "badend"
    /\ rbPos = FrameEnd(1)
    /\ FileBytes(input)[rbPos + 1] # ByteFF

(***************************************************************************)
(* Claims on SpecScanLive: the scan ends                                   *)
(***************************************************************************)
\* C33: rb.pos never decreases from one iteration of the scan loop to the
\* next, every iteration after which the scan goes on increases it, and the
\* scan of a file ends (at the end of the data, at a missing marker or on an
\* error), for files read with and without frames.
C33_ScanTerminates ==
    /\ [][rbPos' >= rbPos /\ (scanSt' = "run" => rbPos' > rbPos)]_vars
    /\ <>(scanSt # "run")

\* A scan that went through two iterations and returned at the end of the
\* data.
C33_Witness ==
    /\ scanSt = "done"
    /\ Len(input.recs) = 2
    /\ Len(rf.Messages) = 2
    /\ rbPos = Len(FileBytes(input))

(***************************************************************************)
(* Claims on SpecStat: AddGroup                                            *)
(***************************************************************************)
\* The statistics AddGroup folded into bucket g, in the order of the calls.
RECURSIVE FoldedInto(_, _)
FoldedInto(log, g) ==
    IF log = <<>> THEN <<>>
    ELSE (IF Head(log).group /\ g \in Head(log).names THEN <<Head(log).stat>> ELSE <<>>)
            \o FoldedInto(Tail(log), g)

\* Bucket g was touched by AddGroup only.
OnlyFolded(log, g) == \A k \in 1 .. Len(log) : g \in log[k].names => log[k].group

RECURSIVE TotalSum(_)
TotalSum(folded) == IF folded = <<>> THEN 0 ELSE Head(folded).sum + TotalSum(Tail(folded))
RECURSIVE TotalMessages(_)
TotalMessages(folded) ==
    IF folded = <<>> THEN 0 ELSE Head(folded).messages + TotalMessages(Tail(folded))

\* The bucket of g holds what the calls AddGroup(g, s1) .. AddGroup(g, sn)
\* make of folded = <<s1, .., sn>>.
FoldOf(bucket, folded) ==
    /\ bucket.messages = TotalMessages(folded)
    /\ bucket.sum = TotalSum(folded)
    /\ bucket.count = Len(folded)
    /\ \E k \in 1 .. Len(folded) :
        /\ bucket.min = <<folded[k].sum>>
        /\ \A j \in 1 .. Len(folded) : folded[k].sum <= folded[j].sum
    /\ \E k \in 1 .. Len(folded) :
        /\ bucket.max = <<folded[k].sum>>
        /\ \A j \in 1 .. Len(folded) : folded[j].sum <= folded[k].sum

\* C34: a bucket g that only AddGroup(g, s1) .. AddGroup(g, sn) have touched
\* has messages = the sum of si.messages, sum = the sum of si.sum, count = n,
\* and for min and max the smallest and the largest si.sum; count, min and
\* max of the si are not carried over.
C34_AddGroupFolds ==
    tally.pc = "run"
    => \A g \in DOMAIN tally.cum.index :
        OnlyFolded(tally.log, g)
        => FoldOf(tally.cum.List[tally.cum.index[g]], FoldedInto(tally.log, g))

\* Two statistics folded into the bucket of qa, one of them with a count of
\* 2 and a minimum and a maximum of its own.
C34_Witness ==
    /\ tally.pc = "run"
    /\ QA \in DOMAIN tally.cum.index
    /\ OnlyFolded(tally.log, QA)
    /\ Len(FoldedInto(tally.log, QA)) = 2
    /\ FoldedInto(tally.log, QA)[1].count = 2
    /\ FoldedInto(tally.log, QA)[1].min # <<FoldedInto(tally.log, QA)[1].sum>>
    /\ tally.cum.List[tally.cum.index[QA]].count = 2

(***************************************************************************)
(* Claims on SpecScan: the frames                                          *)
(***************************************************************************)
\* C35: in a file read with frames, while no error has been raised rb.pos is
\* at the start of a frame or at the end of the last one: after the frame at
\* P with length L it is P + 8 + L + 1, whatever the frame holds (number and
\* lengths of the blocks, place of the marker, no marker at all).
C35_OuterCursorOnFrames ==
    (UseLen(input.name) /\ scanSt \in {"run", "done"})
    => \E j \in 1 .. (Len(input.recs) + 1) : rbPos = RecordOffset(input, j)

\* The scan is after the first frame of two, a frame with two blocks whose
\* marker is not at its start.
C35_Witness ==
    /\ UseLen(input.name)
    /\ scanSt = "run"
    /\ Len(input.recs) = 2
    /\ Len(input.recs[1].blocks) = 2
    /\ rbPos = RecordOffset(input, 2)
    /\ rbPos > 0

\* C36: in a file read with frames the reads inside a frame stop at the end
\* of the frame: a block whose length field runs past the L bytes of the
\* frame raises an error, and no message is emitted for it (no body holds
\* the last byte 0xff of the frame or a byte after it).
C36_ReadsStayInFrame ==
    UseLen(input.name)
    => \A i \in 1 .. Len(input.recs) :
        input.recs[i].kind = "long"
        => /\ \A k \in 1 .. Len(rf.Messages) : ~FromRecord(k, i)
           /\ (scanSt # "run" /\ \A j \in 1 .. (i - 1) : input.recs[j].kind = "ok")
                => scanSt = "error"

\* C37: the queue name of a message is read from the record of the message:
\* in a file read with frames it is the name in the frame at Position (the
\* bytes from Position to Position + 8 + length), so that a record without
\* "exchange" gets no message with the name of a later record.
C37_QueueNameFromOwnRecord ==
    UseLen(input.name)
    => \A k \in 1 .. Len(rf.Messages) : \A i \in 1 .. Len(input.recs) :
        FromRecord(k, i)
        => /\ input.recs[i].kind # "noexchange"
           /\ rf.Messages[k].Queue = input.recs[i].q

(***************************************************************************)
(* Claims on SpecScan: the statistics of a report                          *)
(***************************************************************************)
RECURSIVE TotalLength(_)
TotalLength(msgs) == IF msgs = <<>> THEN 0 ELSE Head(msgs).Length + TotalLength(Tail(msgs))

\* C38: at every point of the scan of a file and at its end, the messages
\* and the count of Stat are the number of Messages and the sum of the
\* messages over the table of the queues; the sum of Stat is the sum of the
\* Length of the Messages and the sum of the sums over the table; the table
\* has an entry for a queue exactly when a message of Messages has that queue.
C38_ReportTotalsAgree ==
    /\ rf.Stat.messages = Len(rf.Messages)
    /\ rf.Stat.count = Len(rf.Messages)
    /\ TotalMessages(rf.Queues.List) = Len(rf.Messages)
    /\ rf.Stat.sum = TotalLength(rf.Messages)
    /\ TotalSum(rf.Queues.List) = rf.Stat.sum
    /\ DOMAIN rf.Queues.index = {rf.Messages[k].Queue : k \in 1 .. Len(rf.Messages)}
    /\ {rf.Queues.List[j].Name : j \in 1 .. Len(rf.Queues.List)}
         = {rf.Messages[k].Queue : k \in 1 .. Len(rf.Messages)}

\* A finished scan under a filter that dropped the message of one queue and
\* kept the message of the other.
C38_Witness ==
    /\ scanSt = "done"
    /\ reMatch = <<{QA}>>
    /\ Len(input.recs) = 2
    /\ input.recs[2].q = QB
    /\ rbPos = Len(FileBytes(input))
    /\ Len(rf.Messages) = 1
    /\ rf.Stat.sum > 0

(***************************************************************************)
(* Properties of split-messages (SpecSplit)                                *)
(***************************************************************************)
\* What the readers have to send for the files: one WriteData per selected
\* message of every file.
RECURSIVE ToWriteOfFiles(_, _, _)
ToWriteOfFiles(fs, tc, re) ==
    IF fs = <<>> THEN <<>>
    ELSE ToWrite(re, ScanFile(Head(fs), tc, <<>>).file.Messages)
            \o ToWriteOfFiles(Tail(fs), tc, re)

\* The number of times the line is in the output file of the queue.
TimesWritten(written, item) ==
    IF item.file \in DOMAIN written THEN Times(written[item.file], item.value) ELSE 0

ItemsWritten(written) ==
    UNION {{[file |-> f, value |-> written[f][k]] : k \in 1 .. Len(written[f])} :
            f \in DOMAIN written}

ItemsOf(seq) == {seq[k] : k \in 1 .. Len(seq)}

WrittenAtMostOnce(written, due) ==
    \A item \in ItemsWritten(written) \cup ItemsOf(due) :
        TimesWritten(written, item) <= Times(due, item)

WrittenOnce(written, due) ==
    \A item \in ItemsWritten(written) \cup ItemsOf(due) :
        TimesWritten(written, item) = Times(due, item)

\* C39: in split-messages, whatever the interleaving of the readers and of
\* the writer, toWrite is closed only when every reader has signalled
\* doneReading, no message is written more than once, the process does not
\* end before main has received doneWriting, and when main ends every
\* selected message of every file is once in the output file of its queue.
C39_SplitWritesAll ==
    /\ splitter.writeClosed =>
        \A r \in DOMAIN splitter.readers : splitter.readers[r].st = "exit"
    /\ WrittenAtMostOnce(splitter.written,
                         ToWriteOfFiles(splitter.files, toolchain, reMatch))
    /\ splitter.proc \in {"running", "exited"}
    /\ splitter.proc = "exited" =>
        /\ splitter.writer.st = "exit"
        /\ WrittenOnce(splitter.written,
                       ToWriteOfFiles(splitter.files, toolchain, reMatch))

====
